---- MODULE Spec2Model ----
(***************************************************************************)
(* NLP-to-SQL conversational agent: the orchestration graph, the request   *)
(* state and its patches, the three-stage SQL validator, and the session   *)
(* memory (MemoryManager / SessionMemory).                                 *)
(*                                                                         *)
(* The graph wiring is the one written in graphs/nlp_to_sql_graph.py,      *)
(* lines 41-118 (the node and edge declarations, including the ones that   *)
(* are commented out in this revision).  nodes/error_handler.py is not in  *)
(* the source tree; error_handler_node, route_after_error and classify are *)
(* written from the specification (sections 4.4, 4.5 and 7).               *)
(*                                                                         *)
(* SQL text is a sequence of tokens separated by single blanks; a user     *)
(* query is a sequence of tokens in which " " is an explicit blank.        *)
(***************************************************************************)
EXTENDS Integers, Sequences, FiniteSets, TLC

VARIABLES
    state,       \* AgentState of the turn in flight (graphs/state.py)
    pc,          \* the stage the graph runs next, or "idle" / "__end__" / "aborted"
    memory,      \* the global MemoryManager: sessions and current_session_id
    cache,       \* the schema cache file (see NoFile, TruncatedFile)
    calls,       \* the validation functions the last Validator run called, with results
    completed,   \* log of the turns that ran FinalResponse, in completion order
    turns_started, \* number of turns submitted so far
    returned     \* what the last call of an entry point returned (<< >> before any)

vars == <<state, pc, memory, cache, calls, completed, turns_started, returned>>

-----------------------------------------------------------------------------
(* Bounds of the model *)
MaxSqlLen == 3      \* longest SQL candidate (in tokens) fed to the validator alone
MaxTurns == 2       \* turns submitted to the graph
MaxHistory == 2     \* turns a session holds when the MemoryManager is called alone

(* Program constants *)
MAX_RETRIES == 3
MAX_QUERY_LENGTH == 5000
CACHE_TTL == 3600
CACHE_ENABLED == TRUE

\* Python None (and every other empty, falsy value: "", {}, []) is << >>;
\* an Optional[int] is << >> or <<n>>; an absent or empty id string is "".
NoneVal == << >>
NoId == ""

-----------------------------------------------------------------------------
(* utils/constants.py *)
USER_INPUT == "user_input"
CONTEXT_MANAGER == "context_manager"
SCHEMA_INSPECTOR == "schema_inspector"
BUSINESS_CONTEXT == "business_context"
PLANNER == "planner"
VALIDATOR == "validator"
SQL_EXECUTOR == "sql_executor"
OUTPUT_FORMATTER == "output_formatter"
ERROR_HANDLER == "error_handler"
FINAL_RESPONSE == "final_response"
EXIT == "exit_node"
END == "__end__"

EXIT_COMMANDS == {<<"exit">>, <<"quit">>, <<"bye">>, <<"goodbye">>, <<"stop">>}

FORBIDDEN_SQL_KEYWORDS ==
    <<"DROP", "DELETE", "TRUNCATE", "UPDATE", "INSERT", "ALTER", "CREATE">>

-----------------------------------------------------------------------------
(* Text: tokens, their words and letter case *)

\* The SQL vocabulary.  "Orders.id" and "orders.x" are qualified references
\* (word "." word, no blank inside); ";" and "--" are punctuation; "pad" stands
\* for one identifier of MAX_QUERY_LENGTH characters; "dropped" holds a
\* forbidden keyword inside a longer word.  "FENCE_SQL" and "FENCE"
\* are the markdown code fences (three backquotes, with and without "sql") that
\* only a raw generator response carries.
SqlTokens ==
    {"SELECT", "FROM", "JOIN", "orders", "ghost", "Drop", "dropped", ";",
     "Orders.id", "orders.x", "pad", "--"}

\* The maximal \w+ runs of a token, in order.
Parts(tok) ==
    CASE tok = "Orders.id" -> <<"Orders", "id">>
      [] tok = "orders.x" -> <<"orders", "x">>
      [] tok \in {";", "--", "FENCE_SQL", "FENCE"} -> << >>
      [] OTHER -> <<tok>>

\* str.upper() on the words of the vocabulary
Upper(w) ==
    CASE w \in {"orders", "Orders"} -> "ORDERS"
      [] w = "ghost" -> "GHOST"
      [] w = "Drop" -> "DROP"
      [] w = "dropped" -> "DROPPED"
      [] w = "id" -> "ID"
      [] w = "x" -> "X"
      [] w = "pad" -> "PAD"
      [] OTHER -> w

\* str.lower() on the words of the vocabulary
Lower(w) ==
    CASE w \in {"orders", "Orders"} -> "orders"
      [] w = "SELECT" -> "select"
      [] w = "FROM" -> "from"
      [] w = "JOIN" -> "join"
      [] w = "Drop" -> "drop"
      [] OTHER -> w

\* len() of a token
CharLen(tok) ==
    CASE tok = "pad" -> MAX_QUERY_LENGTH
      [] tok = "SELECT" -> 6
      [] tok \in {"orders", "Orders"} -> 6
      [] tok = "Orders.id" -> 9
      [] tok = "orders.x" -> 8
      [] tok = "ghost" -> 5
      [] tok = "dropped" -> 7
      [] tok \in {"FROM", "JOIN", "Drop"} -> 4
      [] tok = "--" -> 2
      [] OTHER -> 1

RECURSIVE SumLen(_)
SumLen(sql) == IF sql = << >> THEN 0 ELSE CharLen(Head(sql)) + SumLen(Tail(sql))

\* len(sql): the tokens and one blank between neighbours
TextLen(sql) == IF sql = << >> THEN 0 ELSE SumLen(sql) + Len(sql) - 1

\* every word of the text, upper-cased (what \bKEYWORD\b is matched against)
UpperWords(sql) ==
    {Upper(Parts(sql[i])[j]) : <<i, j>> \in
        {p \in (1..Len(sql)) \X (1..2) : p[2] <= Len(Parts(sql[p[1]]))}}

Range(s) == {s[i] : i \in 1..Len(s)}

RECURSIVE SeqOfSet(_)
\* the elements of a finite set of strings as a sequence, one fixed order
SeqOfSet(S) ==
    IF S = {} THEN << >>
    ELSE LET x == CHOOSE y \in S : TRUE IN <<x>> \o SeqOfSet(S \ {x})

\* all orders in which a set can be iterated
Orders(S) ==
    {o \in [1..Cardinality(S) -> S] : \A a \in S : \E i \in 1..Cardinality(S) : o[i] = a}

RECURSIVE Flatten(_)
Flatten(ss) == IF ss = << >> THEN << >> ELSE Head(ss) \o Flatten(Tail(ss))

-----------------------------------------------------------------------------
(* nodes/query_validator.py: the three validation functions *)

\* The tokens sqlparse sees as code: a "--" comment runs to the end of the
\* text (the planner joins all lines into one).
CodeTokens(sql) ==
    IF \E i \in 1..Len(sql) : sql[i] = "--"
    THEN SubSeq(sql, 1, (CHOOSE i \in 1..Len(sql) :
                            sql[i] = "--" /\ \A j \in 1..(i - 1) : sql[j] # "--") - 1)
    ELSE sql

\* len(sqlparse.parse(sql)): every ";" ends a statement, and what follows the
\* last ";" is one more statement.
NumStatements(sql) ==
    LET code == CodeTokens(sql)
        semis == Cardinality({i \in 1..Len(code) : code[i] = ";"})
    IN  IF sql = << >> THEN 0
        ELSE IF code = << >> THEN 1
        ELSE IF code[Len(code)] = ";" THEN semis ELSE semis + 1

validate_sql_syntax(sql) ==
    IF NumStatements(sql) = 0
    THEN [valid |-> FALSE, errors |-> << <<"Failed to parse SQL query">> >>]
    ELSE IF NumStatements(sql) > 1
    THEN [valid |-> FALSE,
          errors |-> << <<"Multiple SQL statements detected. Only single queries allowed.">> >>]
    ELSE [valid |-> TRUE, errors |-> << >>]

\* sql_upper.strip().startswith('SELECT')
StartsWithSelect(sql) ==
    /\ sql # << >>
    /\ Parts(sql[1]) # << >>
    /\ Upper(Parts(sql[1])[1]) = "SELECT"

\* re.search(r'--[^\n]*\b(DROP|DELETE|INSERT)\b', sql, re.IGNORECASE)
SuspiciousComment(sql) ==
    \E i \in 1..Len(sql) : \E j \in (i + 1)..Len(sql) :
        /\ sql[i] = "--"
        /\ \E k \in 1..Len(Parts(sql[j])) :
              Upper(Parts(sql[j])[k]) \in {"DROP", "DELETE", "INSERT"}

ForbiddenErrors(sql) ==
    LET hit(i) == IF FORBIDDEN_SQL_KEYWORDS[i] \in UpperWords(sql)
                  THEN << <<"Forbidden SQL keyword detected", FORBIDDEN_SQL_KEYWORDS[i]>> >>
                  ELSE << >>
    IN  Flatten([i \in 1..Len(FORBIDDEN_SQL_KEYWORDS) |-> hit(i)])

\* validate_sql_safety that matches the keywords against the text as written
\* instead of against sql.upper()
validate_sql_safety_as_written(sql) ==
    LET words == {Parts(sql[p[1]])[p[2]] : p \in
                    {q \in (1..Len(sql)) \X (1..2) : q[2] <= Len(Parts(sql[q[1]]))}}
        hit(i) == IF FORBIDDEN_SQL_KEYWORDS[i] \in words
                  THEN << <<"Forbidden SQL keyword detected", FORBIDDEN_SQL_KEYWORDS[i]>> >>
                  ELSE << >>
        errors ==
            Flatten([i \in 1..Len(FORBIDDEN_SQL_KEYWORDS) |-> hit(i)])
            \o (IF ~StartsWithSelect(sql)
                THEN << <<"Only SELECT queries are allowed">> >> ELSE << >>)
            \o (IF TextLen(sql) > MAX_QUERY_LENGTH
                THEN << <<"Query too long. Maximum length is", "MAX_QUERY_LENGTH">> >>
                ELSE << >>)
            \o (IF "--" \in Range(sql) /\ SuspiciousComment(sql)
                THEN << <<"Suspicious SQL comment detected">> >> ELSE << >>)
    IN  [valid |-> errors = << >>, errors |-> errors]

validate_sql_safety(sql) ==
    LET errors ==
            ForbiddenErrors(sql)
            \o (IF ~StartsWithSelect(sql)
                THEN << <<"Only SELECT queries are allowed">> >> ELSE << >>)
            \o (IF TextLen(sql) > MAX_QUERY_LENGTH
                THEN << <<"Query too long. Maximum length is", "MAX_QUERY_LENGTH">> >>
                ELSE << >>)
            \o (IF "--" \in Range(sql) /\ SuspiciousComment(sql)
                THEN << <<"Suspicious SQL comment detected">> >> ELSE << >>)
    IN  [valid |-> errors = << >>, errors |-> errors]

\* re.findall(r'\bFROM\s+(\w+)', ...) and re.findall(r'\bJOIN\s+(\w+)', ...),
\* case-insensitive: the word that follows the keyword, as written.
MentionedTables(sql) ==
    {Parts(sql[i + 1])[1] : i \in
        {k \in 1..(Len(sql) - 1) :
            /\ Parts(sql[k]) # << >>
            /\ Upper(Parts(sql[k])[Len(Parts(sql[k]))]) \in {"FROM", "JOIN"}
            /\ Parts(sql[k + 1]) # << >>}}

\* re.findall(rf'\b{table}\.(\w+)', sql, re.IGNORECASE), in text order
MentionedColumns(sql, table) ==
    LET col(i) == IF Len(Parts(sql[i])) = 2 /\ Lower(Parts(sql[i])[1]) = Lower(table)
                  THEN <<Parts(sql[i])[2]>> ELSE << >>
    IN  Flatten([i \in 1..Len(sql) |-> col(i)])

\* validate_schema_consistency that compares table names as written, without
\* .lower()
validate_schema_consistency_as_written(sql, schema_info, order) ==
    IF schema_info = NoneVal \/ "tables" \notin DOMAIN schema_info
    THEN [valid |-> TRUE, errors |-> << <<"Schema info not available for validation">> >>]
    ELSE
      LET tables == schema_info.tables
          table_names == DOMAIN tables
          tableError(table) ==
              IF table \notin table_names
              THEN << <<"Table not found in schema", table>> >> ELSE << >>
          columnErrors(table) ==
              IF table \in table_names
              THEN LET table_columns == {Lower(c) : c \in tables[table]}
                       cols == MentionedColumns(sql, table)
                       err(i) == IF Lower(cols[i]) \notin table_columns
                                 THEN << <<"Column not found in table", cols[i], table>> >>
                                 ELSE << >>
                   IN  Flatten([i \in 1..Len(cols) |-> err(i)])
              ELSE << >>
          errors == Flatten([i \in 1..Len(order) |-> tableError(order[i])])
                    \o Flatten([i \in 1..Len(order) |-> columnErrors(order[i])])
      IN  [valid |-> errors = << >>, errors |-> errors]

\* validate_schema_consistency that fails the candidate when there is no
\* schema to check it against
validate_schema_consistency_absent_fails(sql, schema_info, order) ==
    IF schema_info = NoneVal \/ "tables" \notin DOMAIN schema_info
    THEN [valid |-> FALSE, errors |-> << <<"Schema info not available for validation">> >>]
    ELSE
      LET tables == schema_info.tables
          table_names == DOMAIN tables
          tableError(table) ==
              IF Lower(table) \notin {Lower(t) : t \in table_names}
              THEN << <<"Table not found in schema", table>> >> ELSE << >>
          columnErrors(table) ==
              IF \E t \in table_names : Lower(t) = Lower(table)
              THEN LET matching_table == CHOOSE t \in table_names : Lower(t) = Lower(table)
                       table_columns == {Lower(c) : c \in tables[matching_table]}
                       cols == MentionedColumns(sql, table)
                       err(i) == IF Lower(cols[i]) \notin table_columns
                                 THEN << <<"Column not found in table", cols[i], table>> >>
                                 ELSE << >>
                   IN  Flatten([i \in 1..Len(cols) |-> err(i)])
              ELSE << >>
          errors == Flatten([i \in 1..Len(order) |-> tableError(order[i])])
                    \o Flatten([i \in 1..Len(order) |-> columnErrors(order[i])])
      IN  [valid |-> errors = << >>, errors |-> errors]

\* schema_info['tables'] maps a table name to its column names.
\* `order` is the order in which the set mentioned_tables is iterated.
validate_schema_consistency(sql, schema_info, order) ==
    IF schema_info = NoneVal \/ "tables" \notin DOMAIN schema_info
    THEN [valid |-> TRUE, errors |-> << <<"Schema info not available for validation">> >>]
    ELSE
      LET tables == schema_info.tables
          table_names == DOMAIN tables
          tableError(table) ==
              IF Lower(table) \notin {Lower(t) : t \in table_names}
              THEN << <<"Table not found in schema", table>> >> ELSE << >>
          columnErrors(table) ==
              IF \E t \in table_names : Lower(t) = Lower(table)
              THEN LET matching_table == CHOOSE t \in table_names : Lower(t) = Lower(table)
                       table_columns == {Lower(c) : c \in tables[matching_table]}
                       cols == MentionedColumns(sql, table)
                       err(i) == IF Lower(cols[i]) \notin table_columns
                                 THEN << <<"Column not found in table", cols[i], table>> >>
                                 ELSE << >>
                   IN  Flatten([i \in 1..Len(cols) |-> err(i)])
              ELSE << >>
          errors == Flatten([i \in 1..Len(order) |-> tableError(order[i])])
                    \o Flatten([i \in 1..Len(order) |-> columnErrors(order[i])])
      IN  [valid |-> errors = << >>, errors |-> errors]

-----------------------------------------------------------------------------
(* graphs/state.py *)

\* create_initial_state that starts the turn with one retry already counted
create_initial_state_counted(user_query, session_id, schema_info) ==
    [user_query |-> user_query,
     should_exit |-> FALSE,
     session_id |-> session_id,
     conversation_history |-> << >>,
     schema_info |-> schema_info,
     schema_cached |-> (schema_info # NoneVal),
     sql_query |-> NoneVal,
     validation_passed |-> FALSE,
     validation_errors |-> << >>,
     query_results |-> NoneVal,
     execution_success |-> FALSE,
     formatted_output |-> NoneVal,
     error_info |-> NoneVal,
     retry_count |-> 1,
     can_retry |-> TRUE,
     metadata |-> << >>,
     node_history |-> << >>]

create_initial_state(user_query, session_id, schema_info) ==
    [user_query |-> user_query,
     should_exit |-> FALSE,
     session_id |-> session_id,
     conversation_history |-> << >>,
     schema_info |-> schema_info,
     schema_cached |-> (schema_info # NoneVal),
     sql_query |-> NoneVal,
     validation_passed |-> FALSE,
     validation_errors |-> << >>,
     query_results |-> NoneVal,
     execution_success |-> FALSE,
     formatted_output |-> NoneVal,
     error_info |-> NoneVal,
     retry_count |-> 0,
     can_retry |-> TRUE,
     metadata |-> << >>,
     node_history |-> << >>]

\* a merge in which the value the state already has wins
update_state_left_biased(st, updates) ==
    [k \in DOMAIN st \cup DOMAIN updates |->
        IF k \in DOMAIN st THEN st[k] ELSE updates[k]]

\* {**state, **updates}
update_state(st, updates) ==
    [k \in DOMAIN st \cup DOMAIN updates |->
        IF k \in DOMAIN updates THEN updates[k] ELSE st[k]]

-----------------------------------------------------------------------------
(* utils/memory_manager.py *)

ConversationTurn(user_query, sql_query, results_count, success, error_message) ==
    [user_query |-> user_query,
     sql_query |-> sql_query,
     results_count |-> results_count,
     success |-> success,
     error_message |-> error_message]

SessionMemory(session_id) ==
    [session_id |-> session_id,
     conversation_history |-> << >>,
     last_query |-> NoneVal,
     last_sql |-> NoneVal,
     last_results |-> NoneVal]

\* add_turn that keeps only the successful turns
add_turn_successful_only(session, user_query, sql_query, results_count, success, error_message) ==
    LET turn == ConversationTurn(user_query, sql_query, results_count, success, error_message)
    IN  IF success
        THEN [session EXCEPT !.conversation_history = Append(@, turn),
                             !.last_query = user_query, !.last_sql = sql_query]
        ELSE session

\* add_turn that tracks the last query and SQL of every turn, failed or not
add_turn_tracks_every_turn(session, user_query, sql_query, results_count, success, error_message) ==
    LET turn == ConversationTurn(user_query, sql_query, results_count, success, error_message)
    IN  [session EXCEPT !.conversation_history = Append(@, turn),
                        !.last_query = user_query, !.last_sql = sql_query]

\* SessionMemory.add_turn
add_turn(session, user_query, sql_query, results_count, success, error_message) ==
    LET turn == ConversationTurn(user_query, sql_query, results_count, success, error_message)
        appended == [session EXCEPT !.conversation_history = Append(@, turn)]
    IN  IF success
        THEN [appended EXCEPT !.last_query = user_query, !.last_sql = sql_query]
        ELSE appended

\* SessionMemory.get_recent_context: self.conversation_history[-n:]
get_recent_context(session, n) ==
    LET h == session.conversation_history
    IN  IF n = 0 \/ n >= Len(h) THEN h ELSE SubSeq(h, Len(h) - n + 1, Len(h))

\* MemoryManager.get_session: None is << >>
get_session(mem, session_id) ==
    LET sid == IF session_id # NoId THEN session_id ELSE mem.current_session_id
    IN  IF sid \in DOMAIN mem.sessions THEN mem.sessions[sid] ELSE NoneVal

\* MemoryManager.create_session; generated is the id made from the wall clock
create_session(mem, session_id, generated) ==
    LET sid == IF session_id = NoId THEN generated ELSE session_id
    IN  [sessions |-> [k \in DOMAIN mem.sessions \cup {sid} |->
                          IF k = sid THEN SessionMemory(sid) ELSE mem.sessions[k]],
         current_session_id |-> sid]

\* update_session that works on the current session whatever session_id says
update_session_on_current(mem, user_query, sql_query, results, success, error_message, session_id, generated) ==
    LET found == get_session(mem, NoId)
        mem1 == IF found = NoneVal THEN create_session(mem, NoId, generated) ELSE mem
        session == get_session(mem1, NoId)
        results_count == IF results # << >> THEN <<Len(results)>> ELSE NoneVal
        turned == add_turn(session, user_query, sql_query, results_count,
                           success, error_message)
        stored == IF success /\ results # << >>
                  THEN [turned EXCEPT !.last_results = results] ELSE turned
    IN  [mem1 EXCEPT !.sessions[session.session_id] = stored]

\* MemoryManager.update_session
update_session(mem, user_query, sql_query, results, success, error_message, session_id, generated) ==
    LET found == get_session(mem, session_id)
        mem1 == IF found = NoneVal THEN create_session(mem, NoId, generated) ELSE mem
        session == get_session(mem1, IF found = NoneVal THEN NoId ELSE session_id)
        results_count == IF results # << >> THEN <<Len(results)>> ELSE NoneVal
        turned == add_turn(session, user_query, sql_query, results_count,
                           success, error_message)
        stored == IF success /\ results # << >>
                  THEN [turned EXCEPT !.last_results = results] ELSE turned
    IN  [mem1 EXCEPT !.sessions[session.session_id] = stored]

\* MemoryManager.get_context_for_query
get_context_for_query(mem, session_id) ==
    LET session == get_session(mem, session_id)
    IN  IF session = NoneVal THEN << >>
        ELSE [has_previous_queries |-> Len(get_recent_context(session, 3)) > 0,
              last_query |-> session.last_query,
              last_sql |-> session.last_sql,
              conversation_length |-> Len(session.conversation_history)]

\* str.split() of a query: its tokens without the blanks
SplitWords(q) == SelectSeq(q, LAMBDA t : t # " ")

\* str.lower() on the query vocabulary
QLower(t) ==
    CASE t = "Bye" -> "bye"
      [] t = "It" -> "it"
      [] OTHER -> t

LowerQuery(q) == [i \in 1..Len(q) |-> QLower(q[i])]

reference_words == {"it", "that", "this", "them", "those", "these", "same"}

\* resolve_pronoun_references that looks for the reference words in the query
\* as written, without .lower()
resolve_pronoun_references_as_written(mem, query, session_id) ==
    LET session == get_session(mem, session_id)
    IN  IF session = NoneVal THEN query
        ELSE IF session.last_query = NoneVal THEN query
        ELSE IF \E w \in reference_words : w \in Range(SplitWords(query))
        THEN query \o <<" ", "(referring to previous query: '">>
                   \o session.last_query \o <<"')">>
        ELSE query

\* MemoryManager.resolve_pronoun_references
resolve_pronoun_references(mem, query, session_id) ==
    LET session == get_session(mem, session_id)
    IN  IF session = NoneVal THEN query
        ELSE IF session.last_query = NoneVal THEN query
        ELSE IF \E w \in reference_words : w \in Range(SplitWords(LowerQuery(query)))
        THEN query \o <<" ", "(referring to previous query: '">>
                   \o session.last_query \o <<"')">>
        ELSE query

-----------------------------------------------------------------------------
(* The database and the generator, as the collaborators the nodes call *)

\* what inspect_database_schema() returns when the database answers
DbSchema ==
    [tables |-> [t \in {"orders"} |-> {"id"}],
     relationships |-> << >>,
     table_names |-> <<"orders">>]

\* raw text the generator may return
RawResponses ==
    {<<"FENCE_SQL", "SELECT", "FROM", "orders", "FENCE">>,
     <<"SELECT", "FROM", "ghost", ";">>}

\* rows the database may return
ResultSets == {<<"row">>}

\* user queries submitted to the graph
Queries ==
    {<<"show", " ", "It">>, <<" ", "Bye", " ">>, <<" ">>, <<"stop", " ", "orders">>}

SessionIds == {"s1", "s2"}

\* the id create_session() makes from the wall clock
GeneratedId == "session_now"

-----------------------------------------------------------------------------
(* nodes/user_input.py *)

\* str.strip()
RECURSIVE LStrip(_)
LStrip(q) == IF q # << >> /\ Head(q) = " " THEN LStrip(Tail(q)) ELSE q
RECURSIVE RStrip(_)
RStrip(q) ==
    IF q # << >> /\ q[Len(q)] = " " THEN RStrip(SubSeq(q, 1, Len(q) - 1)) ELSE q
Strip(q) == RStrip(LStrip(q))

\* user_input_node that tests the query for an exit command without .strip()
user_input_node_unstripped(st, mem) ==
    LET user_query == Strip(st.user_query)
        resolved_query == resolve_pronoun_references(mem, user_query, st.session_id)
    IN  IF LowerQuery(st.user_query) \in EXIT_COMMANDS
        THEN [should_exit |-> TRUE,
              node_history |-> Append(st.node_history, USER_INPUT)]
        ELSE IF user_query = << >>
        THEN [should_exit |-> FALSE,
              error_info |-> [type |-> "validation_error",
                              message |-> "Please provide a query"],
              node_history |-> Append(st.node_history, USER_INPUT)]
        ELSE [user_query |-> resolved_query,
              should_exit |-> FALSE,
              error_info |-> NoneVal,
              retry_count |-> 0,
              node_history |-> Append(st.node_history, USER_INPUT),
              metadata |-> update_state(st.metadata,
                              [original_query |-> user_query,
                               query_resolved |-> (resolved_query # user_query)])]

user_input_node(st, mem) ==
    LET user_query == Strip(st.user_query)
        resolved_query == resolve_pronoun_references(mem, user_query, st.session_id)
    IN  IF LowerQuery(user_query) \in EXIT_COMMANDS
        THEN [should_exit |-> TRUE,
              node_history |-> Append(st.node_history, USER_INPUT)]
        ELSE IF user_query = << >>
        THEN [should_exit |-> FALSE,
              error_info |-> [type |-> "validation_error",
                              message |-> "Please provide a query"],
              node_history |-> Append(st.node_history, USER_INPUT)]
        ELSE [user_query |-> resolved_query,
              should_exit |-> FALSE,
              error_info |-> NoneVal,
              retry_count |-> 0,
              node_history |-> Append(st.node_history, USER_INPUT),
              metadata |-> update_state(st.metadata,
                              [original_query |-> user_query,
                               query_resolved |-> (resolved_query # user_query)])]

should_exit(st) == IF st.should_exit THEN EXIT ELSE CONTEXT_MANAGER

-----------------------------------------------------------------------------
(* nodes/context_manager.py *)

\* "get or create session" that creates the session whether it exists or not
context_manager_memory_always_creates(st, mem) ==
    create_session(mem, st.session_id, GeneratedId)

\* the MemoryManager after the node's "get or create session"
context_manager_memory(st, mem) ==
    IF get_session(mem, st.session_id) = NoneVal
    THEN create_session(mem, st.session_id, GeneratedId)
    ELSE mem

context_manager_node(st, mem) ==
    LET mem1 == context_manager_memory(st, mem)
        session == get_session(mem1, st.session_id)
        context == get_context_for_query(mem1, st.session_id)
        recent_turns == IF session = NoneVal THEN << >> ELSE get_recent_context(session, 5)
    IN  [conversation_history |->
            [i \in 1..Len(recent_turns) |->
                [query |-> recent_turns[i].user_query,
                 sql |-> recent_turns[i].sql_query,
                 success |-> recent_turns[i].success]],
         node_history |-> Append(st.node_history, CONTEXT_MANAGER),
         metadata |-> update_state(st.metadata,
                         [is_followup |-> IF context = << >> THEN FALSE
                                          ELSE context.has_previous_queries,
                          last_query |-> IF context = << >> THEN NoneVal
                                         ELSE context.last_query,
                          last_sql |-> IF context = << >> THEN NoneVal
                                       ELSE context.last_sql])]

-----------------------------------------------------------------------------
(* nodes/schema_inspector.py *)

\* the instants at which the clock is read (datetime.now()), in seconds
Times == {0, CACHE_TTL - 1, CACHE_TTL}

\* The cache file: << >> when there is none, [text |-> ...] when its content
\* is not JSON, otherwise the JSON object with the keys it has.  A timestamp
\* is <<t>> for the ISO text of instant t and << >> for text that
\* datetime.fromisoformat rejects.
NoFile == << >>
TruncatedFile == [text |-> "{ \"timestamp\": ..."]

\* the default '2000-01-01' of cache_data.get('timestamp', ...): long before
\* every instant of the model
Y2K == 0 - (2 * CACHE_TTL)

\* load_schema_cache that still serves an entry that is exactly CACHE_TTL old
load_schema_cache_inclusive(file, now) ==
    IF ~CACHE_ENABLED THEN NoneVal
    ELSE IF file = NoFile THEN NoneVal
    ELSE IF "text" \in DOMAIN file THEN NoneVal
    ELSE LET timestamp == IF "timestamp" \in DOMAIN file THEN file.timestamp ELSE <<Y2K>>
         IN  IF Len(timestamp) # 1 THEN NoneVal
             ELSE IF now - timestamp[1] <= CACHE_TTL
             THEN IF "schema" \in DOMAIN file THEN file.schema ELSE NoneVal
             ELSE NoneVal

\* load_schema_cache that takes a file without a timestamp as written just now
load_schema_cache_undated_is_fresh(file, now) ==
    IF ~CACHE_ENABLED THEN NoneVal
    ELSE IF file = NoFile THEN NoneVal
    ELSE IF "text" \in DOMAIN file THEN NoneVal
    ELSE LET timestamp == IF "timestamp" \in DOMAIN file THEN file.timestamp ELSE <<now>>
         IN  IF Len(timestamp) # 1 THEN NoneVal
             ELSE IF now - timestamp[1] < CACHE_TTL
             THEN IF "schema" \in DOMAIN file THEN file.schema ELSE NoneVal
             ELSE NoneVal

\* load_schema_cache() with the clock reading `now`
load_schema_cache(file, now) ==
    IF ~CACHE_ENABLED THEN NoneVal
    ELSE IF file = NoFile THEN NoneVal
    ELSE IF "text" \in DOMAIN file THEN NoneVal
    ELSE LET timestamp == IF "timestamp" \in DOMAIN file THEN file.timestamp ELSE <<Y2K>>
         IN  IF Len(timestamp) # 1 THEN NoneVal
             ELSE IF now - timestamp[1] < CACHE_TTL
             THEN IF "schema" \in DOMAIN file THEN file.schema ELSE NoneVal
             ELSE NoneVal

\* save_schema_cache(schema): the file after the call.  json.dump writes into
\* the file it has just truncated; when a value of the schema (a date or a
\* decimal among the sample rows) is not serializable it raises half-way and
\* the exception is swallowed.
save_schema_cache(file, schema, now, serializable) ==
    IF ~CACHE_ENABLED THEN file
    ELSE IF serializable THEN [timestamp |-> <<now>>, schema |-> schema]
    ELSE TruncatedFile

\* inspected is << >> when inspect_database_schema() returns an error
schema_inspector_node(st, file, now, inspected) ==
    IF st.schema_info # NoneVal /\ st.schema_cached
    THEN [node_history |-> Append(st.node_history, SCHEMA_INSPECTOR)]
    ELSE LET loaded == load_schema_cache(file, now)
             schema_info == IF loaded # NoneVal THEN loaded ELSE inspected
         IN  IF schema_info = NoneVal
             THEN [schema_info |-> NoneVal,
                   schema_cached |-> FALSE,
                   error_info |-> [type |-> "schema_error",
                                   message |-> "Failed to get table names",
                                   node |-> SCHEMA_INSPECTOR],
                   node_history |-> Append(st.node_history, SCHEMA_INSPECTOR)]
             ELSE [schema_info |-> schema_info,
                   schema_cached |-> TRUE,
                   node_history |-> Append(st.node_history, SCHEMA_INSPECTOR)]

\* the cache file after a node that removes the file when the inspection fails
schema_inspector_file_cleared_on_failure(st, file, now, inspected, serializable) ==
    IF st.schema_info # NoneVal /\ st.schema_cached THEN file
    ELSE IF load_schema_cache(file, now) # NoneVal THEN file
    ELSE IF inspected = NoneVal THEN NoFile
    ELSE save_schema_cache(file, inspected, now, serializable)

\* the cache file after the node ran
schema_inspector_file(st, file, now, inspected, serializable) ==
    IF st.schema_info # NoneVal /\ st.schema_cached THEN file
    ELSE IF load_schema_cache(file, now) # NoneVal THEN file
    ELSE IF inspected = NoneVal THEN file
    ELSE save_schema_cache(file, inspected, now, serializable)

-----------------------------------------------------------------------------
(* nodes/business_context.py *)

\* business_context_node that leaves no trace of itself in node_history
business_context_node_untraced(st) ==
    [business_context |-> [query_type |-> "general"]]

business_context_node(st) ==
    [business_context |-> [query_type |-> "general"],
     node_history |-> Append(st.node_history, BUSINESS_CONTEXT)]

-----------------------------------------------------------------------------
(* nodes/planner.py *)

_clean_sql_query(raw) ==
    LET sql == SelectSeq(raw, LAMBDA t : t \notin {"FENCE_SQL", "FENCE"})
    IN  IF sql # << >> /\ sql[Len(sql)] = ";" THEN sql ELSE Append(sql, ";")

\* what llm.invoke() gives when it raises instead of returning text
GeneratorError == <<"<exception>">>

\* what planner_node reads from the request state to fill the prompt it
\* sends to the generator (prompt.format_messages)
generator_input(st) ==
    [schema_info |-> st.schema_info,
     business_context |-> IF "business_context" \in DOMAIN st
                          THEN st.business_context ELSE NoneVal,
     conversation_history |-> st.conversation_history,
     contextual_hints |-> IF "contextual_hints" \in DOMAIN st.metadata
                          THEN st.metadata.contextual_hints ELSE << >>,
     user_query |-> st.user_query]

\* response is the generator's raw text, or GeneratorError
planner_node(st, response) ==
    IF response = GeneratorError
    THEN [sql_query |-> NoneVal,
          error_info |-> [type |-> "planning_error",
                          message |-> "Failed to generate SQL query",
                          node |-> PLANNER],
          node_history |-> Append(st.node_history, PLANNER)]
    ELSE [sql_query |-> _clean_sql_query(response),
          node_history |-> Append(st.node_history, PLANNER)]

-----------------------------------------------------------------------------
(* nodes/query_validator.py: the node *)

\* The validation functions the node calls, in call order, with what each
\* returned (the locals syntax_*, safety_*, schema_* of query_validator_node).
\* the three checks with a stop after the first one that fails
ValidatorCalls_short_circuit(st, order) ==
    IF st.sql_query = NoneVal THEN << >>
    ELSE LET syntax == [fn |-> "validate_sql_syntax"] @@ validate_sql_syntax(st.sql_query)
             safety == [fn |-> "validate_sql_safety"] @@ validate_sql_safety(st.sql_query)
             schema == [fn |-> "validate_schema_consistency"]
                         @@ validate_schema_consistency(st.sql_query, st.schema_info, order)
         IN  IF ~syntax.valid THEN <<syntax>>
             ELSE IF ~safety.valid THEN <<syntax, safety>>
             ELSE <<syntax, safety, schema>>

ValidatorCalls(st, order) ==
    IF st.sql_query = NoneVal THEN << >>
    ELSE << [fn |-> "validate_sql_syntax"] @@ validate_sql_syntax(st.sql_query),
            [fn |-> "validate_sql_safety"] @@ validate_sql_safety(st.sql_query),
            [fn |-> "validate_schema_consistency"]
                @@ validate_schema_consistency(st.sql_query, st.schema_info, order) >>

\* query_validator_node whose verdict leaves the schema stage out
query_validator_node_schema_ignored(st, order) ==
    IF st.sql_query = NoneVal
    THEN [validation_passed |-> FALSE,
          validation_errors |-> << <<"No SQL query provided for validation">> >>,
          node_history |-> Append(st.node_history, VALIDATOR)]
    ELSE
      LET syntax == validate_sql_syntax(st.sql_query)
          safety == validate_sql_safety(st.sql_query)
          schema == validate_schema_consistency(st.sql_query, st.schema_info, order)
          all_errors == syntax.errors \o safety.errors \o schema.errors
          validation_passed == syntax.valid /\ safety.valid
          updates ==
              [validation_passed |-> validation_passed,
               validation_errors |-> all_errors,
               node_history |-> Append(st.node_history, VALIDATOR),
               metadata |-> update_state(st.metadata,
                               [syntax_valid |-> syntax.valid,
                                safety_valid |-> safety.valid,
                                schema_valid |-> schema.valid])]
      IN  IF validation_passed THEN updates
          ELSE update_state(updates,
                   [error_info |-> [type |-> "validation_error",
                                    message |-> all_errors,
                                    node |-> VALIDATOR,
                                    errors |-> all_errors]])

query_validator_node(st, order) ==
    IF st.sql_query = NoneVal
    THEN [validation_passed |-> FALSE,
          validation_errors |-> << <<"No SQL query provided for validation">> >>,
          node_history |-> Append(st.node_history, VALIDATOR)]
    ELSE
      LET called == ValidatorCalls(st, order)
          all_errors == Flatten([i \in 1..Len(called) |-> called[i].errors])
          validation_passed == \A i \in 1..Len(called) : called[i].valid
          stage_valid(fn) == \A i \in 1..Len(called) : called[i].fn = fn => called[i].valid
          updates ==
              [validation_passed |-> validation_passed,
               validation_errors |-> all_errors,
               node_history |-> Append(st.node_history, VALIDATOR),
               metadata |-> update_state(st.metadata,
                               [syntax_valid |-> stage_valid("validate_sql_syntax"),
                                safety_valid |-> stage_valid("validate_sql_safety"),
                                schema_valid |-> stage_valid("validate_schema_consistency")])]
      IN  IF validation_passed THEN updates
          ELSE update_state(updates,
                   [error_info |-> [type |-> "validation_error",
                                    message |-> all_errors,
                                    node |-> VALIDATOR,
                                    errors |-> all_errors]])

\* route_after_validation with its two results exchanged
route_after_validation_inverted(st) ==
    IF st.validation_passed THEN ERROR_HANDLER ELSE SQL_EXECUTOR

\* route_after_validation that forgets to look at the validation result
route_after_validation_always_executor(st) == SQL_EXECUTOR

route_after_validation(st) ==
    IF st.validation_passed THEN SQL_EXECUTOR ELSE ERROR_HANDLER

-----------------------------------------------------------------------------
(* nodes/sql_executor.py *)

\* what the call of db.execute_query does: it returns rows, it returns an
\* error (driver error, connection error, statement timeout), or an exception
\* escapes inside the node's try block
DbOutcomes == {"rows", "error", "raised"}

\* sql_executor_node with a success patch that leaves error_info as it was
sql_executor_node_error_kept(st, outcome, results) ==
    IF st.sql_query = NoneVal
    THEN [execution_success |-> FALSE,
          error_info |-> [type |-> "execution_error",
                          message |-> "No SQL query provided for execution",
                          node |-> SQL_EXECUTOR],
          node_history |-> Append(st.node_history, SQL_EXECUTOR)]
    ELSE IF outcome = "error"
    THEN [execution_success |-> FALSE,
          query_results |-> NoneVal,
          error_info |-> [type |-> "execution_error",
                          message |-> "Query execution error",
                          node |-> SQL_EXECUTOR,
                          sql_query |-> st.sql_query],
          node_history |-> Append(st.node_history, SQL_EXECUTOR)]
    ELSE IF outcome = "raised"
    THEN [execution_success |-> FALSE,
          query_results |-> NoneVal,
          error_info |-> [type |-> "unexpected_error",
                          message |-> "Unexpected error during query execution",
                          node |-> SQL_EXECUTOR],
          node_history |-> Append(st.node_history, SQL_EXECUTOR)]
    ELSE [execution_success |-> TRUE,
          query_results |-> results,
          node_history |-> Append(st.node_history, SQL_EXECUTOR),
          metadata |-> update_state(st.metadata,
                          [result_count |-> Len(results),
                           query_executed |-> st.sql_query])]

sql_executor_node(st, outcome, results) ==
    IF st.sql_query = NoneVal
    THEN [execution_success |-> FALSE,
          error_info |-> [type |-> "execution_error",
                          message |-> "No SQL query provided for execution",
                          node |-> SQL_EXECUTOR],
          node_history |-> Append(st.node_history, SQL_EXECUTOR)]
    ELSE IF outcome = "error"
    THEN [execution_success |-> FALSE,
          query_results |-> NoneVal,
          error_info |-> [type |-> "execution_error",
                          message |-> "Query execution error",
                          node |-> SQL_EXECUTOR,
                          sql_query |-> st.sql_query],
          node_history |-> Append(st.node_history, SQL_EXECUTOR)]
    ELSE IF outcome = "raised"
    THEN [execution_success |-> FALSE,
          query_results |-> NoneVal,
          error_info |-> [type |-> "unexpected_error",
                          message |-> "Unexpected error during query execution",
                          node |-> SQL_EXECUTOR],
          node_history |-> Append(st.node_history, SQL_EXECUTOR)]
    ELSE [execution_success |-> TRUE,
          query_results |-> results,
          error_info |-> NoneVal,
          node_history |-> Append(st.node_history, SQL_EXECUTOR),
          metadata |-> update_state(st.metadata,
                          [result_count |-> Len(results),
                           query_executed |-> st.sql_query])]

\* what a routing function gives when it falls off its end
NoRoute == "None"

route_after_execution(st) ==
    IF st.execution_success THEN OUTPUT_FORMATTER ELSE NoRoute

-----------------------------------------------------------------------------
(* nodes/output_formatter.py *)

output_formatter_node(st) ==
    IF st.query_results = << >>
    THEN [formatted_output |-> <<"I executed your query but didn't find any matching results.">>,
          node_history |-> Append(st.node_history, OUTPUT_FORMATTER)]
    ELSE [formatted_output |-> <<"explanation", "table", "Query Details">>,
          node_history |-> Append(st.node_history, OUTPUT_FORMATTER),
          metadata |-> update_state(st.metadata, [output_generated |-> TRUE])]

-----------------------------------------------------------------------------
(* The error handler: specification sections 4.4, 4.5 and 7 *)

RetryableKinds == {"validation_error", "planning_error"}

\* classify: the error with its retryable flag
classify(error_info) ==
    IF error_info = NoneVal THEN NoneVal
    ELSE update_state(error_info, [retryable |-> error_info.type \in RetryableKinds])

route_after_error(st) ==
    IF /\ st.retry_count < MAX_RETRIES
       /\ st.error_info # NoneVal
       /\ st.error_info.retryable
    THEN PLANNER ELSE FINAL_RESPONSE

\* retry_count advances with the transition back to the Planner
error_handler_node(st) ==
    LET classified == update_state(st, [error_info |-> classify(st.error_info)])
        retry == route_after_error(classified) = PLANNER
    IN  [error_info |-> classified.error_info,
         can_retry |-> retry,
         retry_count |-> IF retry THEN st.retry_count + 1 ELSE st.retry_count,
         node_history |-> Append(st.node_history, ERROR_HANDLER)]

-----------------------------------------------------------------------------
(* nodes/final_response.py *)

\* success = execution_success and formatted_output and not error_info,
\* as the truth value `if success:` reads
final_success(st) ==
    /\ st.execution_success
    /\ st.formatted_output # NoneVal
    /\ st.error_info = NoneVal

\* error_info.get("user_message") if error_info else None
final_error_message(st) ==
    IF st.error_info # NoneVal /\ "user_message" \in DOMAIN st.error_info
    THEN st.error_info.user_message ELSE NoneVal

\* the MemoryManager after the node ran
final_response_memory(st, mem) ==
    IF st.session_id # NoId
    THEN update_session(mem, st.user_query, st.sql_query, st.query_results,
                        final_success(st), final_error_message(st),
                        st.session_id, GeneratedId)
    ELSE mem

final_response_node(st) ==
    LET final_text ==
            IF st.formatted_output = NoneVal
            THEN IF st.error_info # NoneVal
                 THEN IF "user_message" \in DOMAIN st.error_info
                      THEN st.error_info.user_message ELSE <<"An error occurred">>
                 ELSE <<"I apologize, but I couldn't process your query.">>
            ELSE st.formatted_output
    IN  [formatted_output |->
            IF final_success(st)
            THEN Append(final_text, "Feel free to ask another question or type 'exit' to quit.")
            ELSE final_text,
         node_history |-> Append(st.node_history, FINAL_RESPONSE),
         metadata |-> update_state(st.metadata,
                         [query_completed |-> TRUE,
                          final_success |-> final_success(st)])]

exit_node(st, mem) ==
    [formatted_output |->
        <<"Thank you for using the NLP-to-SQL Agent!",
          IF st.session_id # NoId /\ get_session(mem, st.session_id) # NoneVal
          THEN "Session Summary" ELSE "No active session",
          "Goodbye!">>,
     should_exit |-> TRUE,
     node_history |-> Append(st.node_history, EXIT),
     metadata |-> update_state(st.metadata, [session_ended |-> TRUE])]

-----------------------------------------------------------------------------
(* graphs/nlp_to_sql_graph.py: the graph, one action per node with its edge *)

\* add_conditional_edges: a routing result outside the mapping raises, and
\* run_query (interfaces/cli_chat.py) catches it: the turn is aborted.
Branch(route, mapping) ==
    IF route \in DOMAIN mapping THEN mapping[route] ELSE "aborted"

\* the mappings of the four conditional edges
UserInputEdges == (EXIT :> EXIT) @@ (CONTEXT_MANAGER :> CONTEXT_MANAGER)
ValidatorEdges == (SQL_EXECUTOR :> SQL_EXECUTOR) @@ (ERROR_HANDLER :> ERROR_HANDLER)
SqlExecutorEdges == (OUTPUT_FORMATTER :> OUTPUT_FORMATTER) @@ (ERROR_HANDLER :> ERROR_HANDLER)
\* the error handler's mapping with its two targets exchanged
ErrorHandlerEdges_exchanged == (PLANNER :> FINAL_RESPONSE) @@ (FINAL_RESPONSE :> PLANNER)
ErrorHandlerEdges == (PLANNER :> PLANNER) @@ (FINAL_RESPONSE :> FINAL_RESPONSE)

TurnOver == pc \in {"idle", END, "aborted"}

\* run_query that takes a patch without should_exit as a request to exit
run_query_exit_by_default(last_node_state) ==
    [formatted_output |-> IF "formatted_output" \in DOMAIN last_node_state
                          THEN last_node_state.formatted_output
                          ELSE <<"No response generated">>,
     should_exit |-> IF "should_exit" \in DOMAIN last_node_state
                     THEN last_node_state.should_exit ELSE TRUE]

\* run_query: what it returns from the patch of the last node that ran
run_query(last_node_state) ==
    [formatted_output |-> IF "formatted_output" \in DOMAIN last_node_state
                          THEN last_node_state.formatted_output
                          ELSE <<"No response generated">>,
     should_exit |-> IF "should_exit" \in DOMAIN last_node_state
                     THEN last_node_state.should_exit ELSE FALSE]

\* run_query: what it returns when graph.stream raises
run_query_error ==
    [formatted_output |-> <<"I encountered an error", "Please try rephrasing your question.">>,
     should_exit |-> FALSE]

\* interfaces/cli_chat.py: a turn is submitted with a fresh state
Submit ==
    /\ TurnOver
    /\ turns_started < MaxTurns
    /\ \E q \in Queries, sid \in SessionIds, preloaded \in BOOLEAN :
          state' = create_initial_state(q, sid, IF preloaded THEN DbSchema ELSE NoneVal)
    /\ pc' = USER_INPUT
    /\ calls' = << >>
    /\ turns_started' = turns_started + 1
    /\ returned' = NoneVal
    /\ UNCHANGED <<memory, cache, completed>>

UserInput ==
    /\ pc = USER_INPUT
    /\ state' = update_state(state, user_input_node(state, memory))
    /\ pc' = Branch(should_exit(state'), UserInputEdges)
    /\ returned' = IF pc' = "aborted" THEN run_query_error ELSE returned
    /\ UNCHANGED <<memory, cache, calls, completed, turns_started>>

ContextManager ==
    /\ pc = CONTEXT_MANAGER
    /\ state' = update_state(state, context_manager_node(state, memory))
    /\ memory' = context_manager_memory(state, memory)
    /\ pc' = SCHEMA_INSPECTOR
    /\ UNCHANGED <<cache, calls, completed, turns_started, returned>>

SchemaInspector ==
    /\ pc = SCHEMA_INSPECTOR
    /\ \E now \in Times, db_ok \in BOOLEAN, serializable \in BOOLEAN :
          LET inspected == IF db_ok THEN DbSchema ELSE NoneVal
          IN  /\ state' = update_state(state,
                              schema_inspector_node(state, cache, now, inspected))
              /\ cache' = schema_inspector_file(state, cache, now, inspected,
                                                serializable)
    /\ pc' = BUSINESS_CONTEXT
    /\ UNCHANGED <<memory, calls, completed, turns_started, returned>>

BusinessContext ==
    /\ pc = BUSINESS_CONTEXT
    /\ state' = update_state(state, business_context_node(state))
    /\ pc' = PLANNER
    /\ UNCHANGED <<memory, cache, calls, completed, turns_started, returned>>

Planner ==
    /\ pc = PLANNER
    /\ \E response \in RawResponses \cup {GeneratorError} :
          state' = update_state(state, planner_node(state, response))
    /\ pc' = VALIDATOR
    /\ UNCHANGED <<memory, cache, calls, completed, turns_started, returned>>

Validator ==
    /\ pc = VALIDATOR
    /\ \E order \in Orders(IF state.sql_query = NoneVal THEN {}
                           ELSE MentionedTables(state.sql_query)) :
          /\ state' = update_state(state, query_validator_node(state, order))
          /\ calls' = ValidatorCalls(state, order)
    /\ pc' = Branch(route_after_validation(state'), ValidatorEdges)
    /\ returned' = IF pc' = "aborted" THEN run_query_error ELSE returned
    /\ UNCHANGED <<memory, cache, completed, turns_started>>

SqlExecutor ==
    /\ pc = SQL_EXECUTOR
    /\ \E outcome \in DbOutcomes, results \in ResultSets :
          state' = update_state(state, sql_executor_node(state, outcome, results))
    /\ pc' = Branch(route_after_execution(state'), SqlExecutorEdges)
    /\ returned' = IF pc' = "aborted" THEN run_query_error ELSE returned
    /\ UNCHANGED <<memory, cache, calls, completed, turns_started>>

OutputFormatter ==
    /\ pc = OUTPUT_FORMATTER
    /\ state' = update_state(state, output_formatter_node(state))
    /\ pc' = FINAL_RESPONSE
    /\ UNCHANGED <<memory, cache, calls, completed, turns_started, returned>>

ErrorHandler ==
    /\ pc = ERROR_HANDLER
    /\ state' = update_state(state, error_handler_node(state))
    /\ pc' = Branch(route_after_error(
                        update_state(state, [error_info |-> classify(state.error_info)])),
                    ErrorHandlerEdges)
    /\ returned' = IF pc' = "aborted" THEN run_query_error ELSE returned
    /\ UNCHANGED <<memory, cache, calls, completed, turns_started>>

FinalResponse ==
    /\ pc = FINAL_RESPONSE
    /\ state' = update_state(state, final_response_node(state))
    /\ memory' = final_response_memory(state, memory)
    /\ completed' = Append(completed,
                        [session_id |-> state.session_id,
                         user_query |-> state.user_query,
                         sql_query |-> state.sql_query,
                         success |-> final_success(state)])
    /\ pc' = END
    /\ returned' = run_query(final_response_node(state))
    /\ UNCHANGED <<cache, calls, turns_started>>

ExitNode ==
    /\ pc = EXIT
    /\ state' = update_state(state, exit_node(state, memory))
    /\ pc' = END
    /\ returned' = run_query(exit_node(state, memory))
    /\ UNCHANGED <<memory, cache, calls, completed, turns_started>>

Init ==
    /\ state = create_initial_state(<< >>, NoId, NoneVal)
    /\ pc = "idle"
    /\ memory = [sessions |-> << >>, current_session_id |-> NoId]
    /\ cache = << >>
    /\ calls = << >>
    /\ completed = << >>
    /\ turns_started = 0
    /\ returned = NoneVal

Next ==
    \/ Submit
    \/ UserInput
    \/ ContextManager
    \/ SchemaInspector
    \/ BusinessContext
    \/ Planner
    \/ Validator
    \/ SqlExecutor
    \/ OutputFormatter
    \/ ErrorHandler
    \/ FinalResponse
    \/ ExitNode

Spec == Init /\ [][Next]_vars

-----------------------------------------------------------------------------
(* The validator alone, on every SQL text of at most MaxSqlLen tokens *)

SqlTexts == UNION {[1..n -> SqlTokens] : n \in 0..MaxSqlLen}

InitValidate ==
    /\ \E sql \in SqlTexts, known \in BOOLEAN :
          state = [create_initial_state(<<"top", " ", "orders">>, "s1",
                                        IF known THEN DbSchema ELSE NoneVal)
                      EXCEPT !.sql_query = sql]
    /\ pc = VALIDATOR
    /\ memory = [sessions |-> << >>, current_session_id |-> NoId]
    /\ cache = << >>
    /\ calls = << >>
    /\ completed = << >>
    /\ turns_started = 1
    /\ returned = NoneVal

SpecValidate == InitValidate /\ [][Validator]_vars

-----------------------------------------------------------------------------
(* The MemoryManager alone: its methods called in any order *)

\* queries given to resolve_pronoun_references
RefQueries ==
    {<<"what", " ", "about", " ", "it?">>, <<"show", " ", "It">>, <<"show", " ", "orders">>}

\* the turn a caller records
ApiQuery == <<"top", " ", "orders">>
ApiSql == <<"SELECT", "FROM", "orders", ";">>

\* session_id arguments: an id, or None
SessionArgs == SessionIds \cup {NoId}

MemCreate ==
    /\ pc = "memory_api"
    /\ \E sid \in SessionArgs :
          /\ memory' = create_session(memory, sid, GeneratedId)
          /\ returned' = [fn |-> "create_session", session_id |-> sid,
                          result |-> memory'.current_session_id]
    /\ UNCHANGED <<state, pc, cache, calls, completed, turns_started>>

MemGet ==
    /\ pc = "memory_api"
    /\ \E sid \in SessionArgs :
          returned' = [fn |-> "get_session", session_id |-> sid,
                       result |-> get_session(memory, sid)]
    /\ UNCHANGED <<state, pc, memory, cache, calls, completed, turns_started>>

MemAppend ==
    /\ pc = "memory_api"
    /\ \E sid \in SessionArgs, success \in BOOLEAN :
          /\ \A k \in DOMAIN memory.sessions :
                Len(memory.sessions[k].conversation_history) < MaxHistory
          /\ memory' = update_session(memory, ApiQuery, ApiSql,
                                      IF success THEN <<"row">> ELSE << >>,
                                      success, NoneVal, sid, GeneratedId)
          /\ returned' = [fn |-> "update_session", session_id |-> sid,
                          success |-> success]
    /\ UNCHANGED <<state, pc, cache, calls, completed, turns_started>>

MemResolve ==
    /\ pc = "memory_api"
    /\ \E sid \in SessionArgs, query \in RefQueries :
          returned' = [fn |-> "resolve_pronoun_references", session_id |-> sid,
                       query |-> query,
                       result |-> resolve_pronoun_references(memory, query, sid)]
    /\ UNCHANGED <<state, pc, memory, cache, calls, completed, turns_started>>

MemRecent ==
    /\ pc = "memory_api"
    /\ \E sid \in DOMAIN memory.sessions, n \in 0..(MaxHistory + 1) :
          returned' = [fn |-> "get_recent_context", session_id |-> sid, n |-> n,
                       result |-> get_recent_context(memory.sessions[sid], n)]
    /\ UNCHANGED <<state, pc, memory, cache, calls, completed, turns_started>>

InitMemory ==
    /\ state = create_initial_state(<< >>, NoId, NoneVal)
    /\ pc = "memory_api"
    /\ memory = [sessions |-> << >>, current_session_id |-> NoId]
    /\ cache = NoFile
    /\ calls = << >>
    /\ completed = << >>
    /\ turns_started = 0
    /\ returned = NoneVal

NextMemory ==
    \/ MemCreate
    \/ MemGet
    \/ MemAppend
    \/ MemResolve
    \/ MemRecent

SpecMemory == InitMemory /\ [][NextMemory]_vars

-----------------------------------------------------------------------------
(* Two conversations at once on the one MemoryManager of the process.       *)
(* state and pc hold one entry per conversation here.  The stages between   *)
(* ContextManager and FinalResponse use no MemoryManager method; they are   *)
(* one step whose outcome is the state they hand to FinalResponse.          *)

Procs == {"A", "B"}
SidOf(p) == IF p = "A" THEN "s1" ELSE "s2"
QueryOf(p) == IF p = "A" THEN <<"show", " ", "It">> ELSE <<"top", " ", "orders">>

CSubmit(p) ==
    /\ pc[p] \in {"idle", END}
    /\ turns_started < MaxTurns * Cardinality(Procs)
    /\ state' = [state EXCEPT ![p] = create_initial_state(QueryOf(p), SidOf(p), DbSchema)]
    /\ pc' = [pc EXCEPT ![p] = USER_INPUT]
    /\ turns_started' = turns_started + 1
    /\ UNCHANGED <<memory, cache, calls, completed, returned>>

CUserInput(p) ==
    /\ pc[p] = USER_INPUT
    /\ state' = [state EXCEPT ![p] = update_state(@, user_input_node(@, memory))]
    /\ pc' = [pc EXCEPT ![p] = Branch(should_exit(state'[p]), UserInputEdges)]
    /\ UNCHANGED <<memory, cache, calls, completed, turns_started, returned>>

\* context_manager_node up to `if not session:`
CContextLookup(p) ==
    /\ pc[p] = CONTEXT_MANAGER
    /\ pc' = [pc EXCEPT ![p] = IF get_session(memory, state[p].session_id) = NoneVal
                               THEN "context_manager_create"
                               ELSE "context_manager_read"]
    /\ UNCHANGED <<state, memory, cache, calls, completed, turns_started, returned>>

\* memory.create_session(session_id)
CContextCreate(p) ==
    /\ pc[p] = "context_manager_create"
    /\ memory' = create_session(memory, state[p].session_id, GeneratedId)
    /\ pc' = [pc EXCEPT ![p] = "context_manager_read"]
    /\ UNCHANGED <<state, cache, calls, completed, turns_started, returned>>

\* the rest of context_manager_node
CContextRead(p) ==
    /\ pc[p] = "context_manager_read"
    /\ state' = [state EXCEPT ![p] = update_state(@, context_manager_node(@, memory))]
    /\ pc' = [pc EXCEPT ![p] = SCHEMA_INSPECTOR]
    /\ UNCHANGED <<memory, cache, calls, completed, turns_started, returned>>

\* SchemaInspector to OutputFormatter or ErrorHandler
CStages(p) ==
    /\ pc[p] = SCHEMA_INSPECTOR
    /\ \E answered \in BOOLEAN :
          LET planned == update_state(state[p], planner_node(state[p],
                                          <<"SELECT", "FROM", "orders", ";">>))
              failed == update_state(planned,
                            [error_info |-> [type |-> "validation_error",
                                             node |-> VALIDATOR,
                                             retryable |-> TRUE],
                             retry_count |-> MAX_RETRIES])
              executed == update_state(planned,
                              sql_executor_node(planned, "rows", <<"row">>))
              formatted == update_state(executed, output_formatter_node(executed))
          IN  state' = [state EXCEPT ![p] = IF answered THEN formatted ELSE failed]
    /\ pc' = [pc EXCEPT ![p] = FINAL_RESPONSE]
    /\ UNCHANGED <<memory, cache, calls, completed, turns_started, returned>>

CFinalResponse(p) ==
    /\ pc[p] = FINAL_RESPONSE
    /\ state' = [state EXCEPT ![p] = update_state(@, final_response_node(@))]
    /\ memory' = final_response_memory(state[p], memory)
    /\ completed' = Append(completed,
                        [session_id |-> state[p].session_id,
                         user_query |-> state[p].user_query,
                         sql_query |-> state[p].sql_query,
                         success |-> final_success(state[p])])
    /\ pc' = [pc EXCEPT ![p] = END]
    /\ UNCHANGED <<cache, calls, turns_started, returned>>

InitConcurrent ==
    /\ state = [p \in Procs |-> create_initial_state(<< >>, NoId, NoneVal)]
    /\ pc = [p \in Procs |-> "idle"]
    /\ memory = [sessions |-> << >>, current_session_id |-> NoId]
    /\ cache = NoFile
    /\ calls = << >>
    /\ completed = << >>
    /\ turns_started = 0
    /\ returned = NoneVal

NextConcurrent ==
    \E p \in Procs :
        \/ CSubmit(p)
        \/ CUserInput(p)
        \/ CContextLookup(p)
        \/ CContextCreate(p)
        \/ CContextRead(p)
        \/ CStages(p)
        \/ CFinalResponse(p)

SpecConcurrent == InitConcurrent /\ [][NextConcurrent]_vars

-----------------------------------------------------------------------------
(* The schema cache alone: the file, its readers and its writer *)

\* what an earlier inspection found, still in the file
StaleSchema ==
    [tables |-> [t \in {"orders"} |-> {"id", "x"}],
     relationships |-> << >>,
     table_names |-> <<"orders">>]

Schemas == {DbSchema, StaleSchema}

\* the file is removed or replaced from outside the program
CacheFileReplaced ==
    /\ pc = "cache_api"
    /\ \/ cache' = NoFile
       \/ cache' = TruncatedFile
       \/ \E schema \in Schemas : cache' = [schema |-> schema]
       \/ \E schema \in Schemas : cache' = [timestamp |-> << >>, schema |-> schema]
    /\ returned' = [fn |-> "file replaced"]
    /\ UNCHANGED <<state, pc, memory, calls, completed, turns_started>>

CacheRefresh ==
    /\ pc = "cache_api"
    /\ \E now \in Times, schema \in Schemas, serializable \in BOOLEAN :
          /\ cache' = save_schema_cache(cache, schema, now, serializable)
          /\ returned' = [fn |-> "save_schema_cache", now |-> now,
                          serializable |-> serializable]
    /\ UNCHANGED <<state, pc, memory, calls, completed, turns_started>>

CacheGet ==
    /\ pc = "cache_api"
    /\ \E now \in Times :
          returned' = [fn |-> "load_schema_cache", now |-> now,
                       result |-> load_schema_cache(cache, now)]
    /\ UNCHANGED <<state, pc, memory, cache, calls, completed, turns_started>>

\* schema_inspector_node on a request state that carries no schema
CacheInspect ==
    /\ pc = "cache_api"
    /\ \E now \in Times, db_ok \in BOOLEAN, serializable \in BOOLEAN :
          LET st == create_initial_state(ApiQuery, "s1", NoneVal)
              inspected == IF db_ok THEN DbSchema ELSE NoneVal
          IN  /\ state' = update_state(st, schema_inspector_node(st, cache, now, inspected))
              /\ cache' = schema_inspector_file(st, cache, now, inspected, serializable)
              /\ returned' = [fn |-> "schema_inspector_node", now |-> now,
                              file |-> cache, db_ok |-> db_ok]
    /\ UNCHANGED <<pc, memory, calls, completed, turns_started>>

\* schema_inspector_node on a request state that carries the schema the
\* caller captured at instant captured_at (create_initial_state stores the
\* schema without its capture time and sets schema_cached)
CacheInspectCarried ==
    /\ pc = "cache_api"
    /\ \E now \in Times, captured_at \in Times, db_ok \in BOOLEAN, serializable \in BOOLEAN :
          LET st == create_initial_state(ApiQuery, "s1", StaleSchema)
              inspected == IF db_ok THEN DbSchema ELSE NoneVal
          IN  /\ state' = update_state(st, schema_inspector_node(st, cache, now, inspected))
              /\ cache' = schema_inspector_file(st, cache, now, inspected, serializable)
              /\ returned' = [fn |-> "schema_inspector_node on a carried schema",
                              now |-> now, captured_at |-> captured_at,
                              db_ok |-> db_ok]
    /\ UNCHANGED <<pc, memory, calls, completed, turns_started>>

InitCache ==
    /\ state = create_initial_state(ApiQuery, "s1", NoneVal)
    /\ pc = "cache_api"
    /\ memory = [sessions |-> << >>, current_session_id |-> NoId]
    /\ cache = NoFile
    /\ calls = << >>
    /\ completed = << >>
    /\ turns_started = 0
    /\ returned = NoneVal

NextCache ==
    \/ CacheFileReplaced
    \/ CacheRefresh
    \/ CacheGet
    \/ CacheInspect
    \/ CacheInspectCarried

SpecCache == InitCache /\ [][NextCache]_vars

-----------------------------------------------------------------------------
(* The cache file under concurrent refreshes.  save_schema_cache opens the
   file with mode 'w', which truncates it, and json.dump then writes the text
   through the file object's buffer: a file longer than the buffer reaches
   the disk in several writes, each at the writer's own offset.  The file is
   two blocks here, the first with the timestamp and the second with the
   schema; a block is << >> while nothing is written there.  The two
   refreshes serialise to texts of the same length. *)

Writers == {"A", "B"}

\* datetime.now() of each refresh, and the schema it found
StampOf(w) == IF w = "A" THEN 0 ELSE CACHE_TTL - 1
SchemaOf(w) == IF w = "A" THEN DbSchema ELSE StaleSchema

EmptyBlocks == [head |-> << >>, tail |-> << >>]

\* json.load of the blocks: the JSON object, or text that does not parse
ParseBlocks(blocks) ==
    IF blocks.head = << >> \/ blocks.tail = << >> THEN TruncatedFile
    ELSE [timestamp |-> blocks.head[1], schema |-> blocks.tail[1]]

\* open(SCHEMA_CACHE_FILE, 'w')
RaceOpen(w) ==
    /\ pc[w] = "closed"
    /\ turns_started < MaxTurns + 1
    /\ cache' = EmptyBlocks
    /\ pc' = [pc EXCEPT ![w] = "opened"]
    /\ turns_started' = turns_started + 1
    /\ UNCHANGED <<state, memory, calls, completed, returned>>

\* the first write of json.dump reaches the file
RaceWriteHead(w) ==
    /\ pc[w] = "opened"
    /\ cache' = [cache EXCEPT !.head = << <<StampOf(w)>> >>]
    /\ pc' = [pc EXCEPT ![w] = "head written"]
    /\ UNCHANGED <<state, memory, calls, completed, turns_started, returned>>

\* the rest is written when the with block closes the file
RaceWriteTail(w) ==
    /\ pc[w] = "head written"
    /\ cache' = [cache EXCEPT !.tail = <<SchemaOf(w)>>]
    /\ pc' = [pc EXCEPT ![w] = "closed"]
    /\ calls' = <<w>>
    /\ UNCHANGED <<state, memory, completed, turns_started, returned>>

\* load_schema_cache() by a reader, between any two steps of the writers
RaceRead ==
    /\ \E now \in Times :
          returned' = [fn |-> "load_schema_cache", now |-> now,
                       file |-> ParseBlocks(cache),
                       result |-> load_schema_cache(ParseBlocks(cache), now)]
    /\ UNCHANGED <<state, pc, memory, cache, calls, completed, turns_started>>

InitRace ==
    /\ state = create_initial_state(ApiQuery, "s1", NoneVal)
    /\ pc = [w \in Writers |-> "closed"]
    /\ memory = [sessions |-> << >>, current_session_id |-> NoId]
    /\ cache = EmptyBlocks
    /\ calls = << >>
    /\ completed = << >>
    /\ turns_started = 0
    /\ returned = NoneVal

NextRace ==
    \E w \in Writers :
        \/ RaceOpen(w)
        \/ RaceWriteHead(w)
        \/ RaceWriteTail(w)
        \/ RaceRead

SpecRace == InitRace /\ [][NextRace]_vars

-----------------------------------------------------------------------------
(* update_state alone, on states and patches over a few keys of the request
   state; metadata is the key whose values are dictionaries themselves *)

\* the patch with the keys that are marked present
Restrict(full, present) == [k \in present |-> full[k]]

\* a caller holds a request state
MergePick ==
    /\ pc = "merge_api"
    /\ \E sql \in {NoneVal, ApiSql}, count \in 0..1, checked \in BOOLEAN :
          state' = [create_initial_state(ApiQuery, "s1", NoneVal)
                       EXCEPT !.sql_query = sql,
                              !.retry_count = count,
                              !.metadata = [syntax_valid |-> checked]]
    /\ returned' = NoneVal
    /\ UNCHANGED <<pc, memory, cache, calls, completed, turns_started>>

\* update_state(state, updates): the caller's state stays as it is and the
\* merge is returned
MergeApply ==
    /\ pc = "merge_api"
    /\ \E present \in SUBSET {"sql_query", "retry_count", "metadata", "business_context"}, sql \in {NoneVal, ApiSql} :
          LET updates == Restrict([sql_query |-> sql,
                                   retry_count |-> state.retry_count + 1,
                                   metadata |-> [result_count |-> 1],
                                   business_context |-> [query_type |-> "general"]],
                                  present)
          IN  returned' = [fn |-> "update_state", state |-> state,
                           updates |-> updates,
                           result |-> update_state(state, updates)]
    /\ UNCHANGED <<state, pc, memory, cache, calls, completed, turns_started>>

InitMerge ==
    /\ state = create_initial_state(ApiQuery, "s1", NoneVal)
    /\ pc = "merge_api"
    /\ memory = [sessions |-> << >>, current_session_id |-> NoId]
    /\ cache = NoFile
    /\ calls = << >>
    /\ completed = << >>
    /\ turns_started = 0
    /\ returned = NoneVal

NextMerge ==
    \/ MergePick
    \/ MergeApply

SpecMerge == InitMerge /\ [][NextMerge]_vars

-----------------------------------------------------------------------------
(* Two turns on one session_id completing at the same time.  update_session
   and add_turn take no lock: each statement that writes the session is a
   step of its own, and the steps of the two callers interleave. *)

SharedSid == "s1"

SqlOf(p) == IF p = "A" THEN ApiSql ELSE <<"SELECT", "FROM", "items", ";">>

\* final_response_node calls memory.update_session for a turn that succeeded
\* or failed
SharedCall(p) ==
    /\ pc[p] = "idle"
    /\ turns_started < MaxTurns + 1
    /\ \E success \in BOOLEAN :
          state' = [state EXCEPT ![p] =
                       [user_query |-> QueryOf(p), sql_query |-> SqlOf(p),
                        query_results |-> IF success THEN <<"row">> ELSE NoneVal,
                        success |-> success]]
    /\ pc' = [pc EXCEPT ![p] = "add_turn"]
    /\ turns_started' = turns_started + 1
    /\ UNCHANGED <<memory, cache, calls, completed, returned>>

\* self.conversation_history.append(turn)
SharedAppend(p) ==
    /\ pc[p] = "add_turn"
    /\ memory' = [memory EXCEPT !.sessions[SharedSid].conversation_history =
                     Append(@, ConversationTurn(state[p].user_query, state[p].sql_query,
                                                IF state[p].query_results # << >>
                                                THEN <<Len(state[p].query_results)>> ELSE NoneVal,
                                                state[p].success, NoneVal))]
    /\ pc' = [pc EXCEPT ![p] = IF state[p].success THEN "last_query" ELSE "idle"]
    /\ completed' = Append(completed, [session_id |-> SharedSid,
                                       user_query |-> state[p].user_query,
                                       sql_query |-> state[p].sql_query,
                                       success |-> state[p].success])
    /\ UNCHANGED <<state, cache, calls, turns_started, returned>>

\* self.last_query = user_query
SharedSetLastQuery(p) ==
    /\ pc[p] = "last_query"
    /\ memory' = [memory EXCEPT !.sessions[SharedSid].last_query = state[p].user_query]
    /\ pc' = [pc EXCEPT ![p] = "last_sql"]
    /\ UNCHANGED <<state, cache, calls, completed, turns_started, returned>>

\* self.last_sql = sql_query
SharedSetLastSql(p) ==
    /\ pc[p] = "last_sql"
    /\ memory' = [memory EXCEPT !.sessions[SharedSid].last_sql = state[p].sql_query]
    /\ pc' = [pc EXCEPT ![p] = "last_results"]
    /\ UNCHANGED <<state, cache, calls, completed, turns_started, returned>>

\* session.last_results = results
SharedSetLastResults(p) ==
    /\ pc[p] = "last_results"
    /\ memory' = [memory EXCEPT !.sessions[SharedSid].last_results = state[p].query_results]
    /\ pc' = [pc EXCEPT ![p] = "idle"]
    /\ UNCHANGED <<state, cache, calls, completed, turns_started, returned>>

InitShared ==
    /\ state = [p \in Procs |->
                   [user_query |-> QueryOf(p), sql_query |-> SqlOf(p),
                    query_results |-> NoneVal, success |-> FALSE]]
    /\ pc = [p \in Procs |-> "idle"]
    /\ memory = create_session([sessions |-> << >>, current_session_id |-> NoId],
                               SharedSid, GeneratedId)
    /\ cache = NoFile
    /\ calls = << >>
    /\ completed = << >>
    /\ turns_started = 0
    /\ returned = NoneVal

NextShared ==
    \E p \in Procs :
        \/ SharedCall(p)
        \/ SharedAppend(p)
        \/ SharedSetLastQuery(p)
        \/ SharedSetLastSql(p)
        \/ SharedSetLastResults(p)

SpecShared == InitShared /\ [][NextShared]_vars

-----------------------------------------------------------------------------
(* Properties *)

Last(seq) == seq[Len(seq)]

Count(seq, x) == Cardinality({i \in 1..Len(seq) : seq[i] = x})

\* the turn has ended through FinalResponse
EndedAtFinalResponse ==
    /\ pc = END
    /\ state.node_history # << >>
    /\ Last(state.node_history) = FINAL_RESPONSE

C2_RetryCount ==
    /\ [](pc = USER_INPUT => state.retry_count = 0)
    /\ [](state.retry_count \in 0..MAX_RETRIES)
    /\ [][state'.retry_count # state.retry_count =>
            \/ pc' = USER_INPUT /\ state'.retry_count = 0
            \/ /\ pc = ERROR_HANDLER
               /\ pc' = PLANNER
               /\ state.error_info.type \in {"validation_error", "planning_error"}
               /\ state'.retry_count = state.retry_count + 1]_vars
    /\ [][(pc = ERROR_HANDLER /\ pc' = PLANNER) =>
            state'.retry_count = state.retry_count + 1]_vars

\* the last retry is about to run
C2_Witness == pc = PLANNER /\ state.retry_count = MAX_RETRIES

C4_ExecutorOnlyAfterPass ==
    pc = SQL_EXECUTOR =>
        /\ state.validation_passed = TRUE
        /\ state.sql_query # NoneVal
        /\ validate_sql_syntax(state.sql_query).valid
        /\ validate_sql_safety(state.sql_query).valid
        /\ \A order \in Orders(MentionedTables(state.sql_query)) :
              validate_schema_consistency(state.sql_query, state.schema_info, order).valid

\* the executor is entered after at least one rejected attempt
C4_Witness ==
    /\ pc = SQL_EXECUTOR
    /\ state.retry_count > 0
    /\ state.validation_passed

\* the Validator has just run on state.sql_query
ValidatorRan ==
    /\ state.node_history # << >>
    /\ Last(state.node_history) = VALIDATOR

\* a forbidden keyword occurs in the text as a whole word, in any letter case
ContainsForbiddenKeyword(sql) ==
    \E i \in 1..Len(sql) : \E j \in 1..Len(Parts(sql[i])) :
        \E k \in 1..Len(FORBIDDEN_SQL_KEYWORDS) :
            Upper(Parts(sql[i])[j]) = FORBIDDEN_SQL_KEYWORDS[k]

\* C5: a candidate that contains a forbidden keyword as a whole word, in any
\* letter case, does not pass the safety stage (and so does not pass
\* validation); if it also does not start with SELECT, at least two errors are
\* reported.
C5_ForbiddenKeywords ==
    (ValidatorRan /\ state.sql_query # NoneVal
                  /\ ContainsForbiddenKeyword(state.sql_query)) =>
        /\ calls[2].fn = "validate_sql_safety"
        /\ calls[2].valid = FALSE
        /\ state.metadata.safety_valid = FALSE
        /\ state.validation_passed = FALSE
        /\ ~StartsWithSelect(state.sql_query) =>
              /\ Len(calls[2].errors) >= 2
              /\ Len(state.validation_errors) >= 2

\* "Drop ghost ;" was validated: a keyword in mixed case, no leading SELECT
C5_Witness ==
    /\ ValidatorRan
    /\ state.sql_query = <<"Drop", "ghost", ";">>
    /\ Len(calls[2].errors) >= 2
    /\ state.validation_passed = FALSE

\* every error of the stage result is in the validation result
Contributes(result) == Range(result.errors) \subseteq Range(state.validation_errors)

\* the three checks ran, in stage order, and each contributed its errors
AllThreeChecksRan ==
    /\ Len(calls) = 3
    /\ calls[1].fn = "validate_sql_syntax"
    /\ calls[2].fn = "validate_sql_safety"
    /\ calls[3].fn = "validate_schema_consistency"
    /\ \A i \in 1..3 : Contributes(calls[i])
    /\ Contributes(validate_sql_syntax(state.sql_query))
    /\ Contributes(validate_sql_safety(state.sql_query))

\* C6 as stated: whatever candidate the Validator receives, an empty or absent
\* one included, all three checks run and each contributes its errors.
C6_AsStated == ValidatorRan => AllThreeChecksRan

\* C6: for every candidate that is present and not empty, one that fails the
\* syntax stage included, all three checks run and each contributes its
\* errors; for an absent or empty candidate none of the checks runs and the
\* result is the single error "No SQL query provided for validation".
C6_NoShortCircuit ==
    ValidatorRan =>
        IF state.sql_query = NoneVal
        THEN /\ calls = << >>
             /\ state.validation_passed = FALSE
             /\ state.validation_errors = << <<"No SQL query provided for validation">> >>
        ELSE AllThreeChecksRan

\* a candidate that fails the syntax stage and the safety stage went through
\* all three checks
C6_Witness ==
    /\ ValidatorRan
    /\ state.sql_query # NoneVal
    /\ Len(calls) = 3
    /\ calls[1].valid = FALSE
    /\ calls[2].valid = FALSE
    /\ Len(state.validation_errors) >= 2

\* passed is the conjunction of the three stages and the errors are their
\* errors in stage order, for some iteration order of the mentioned tables
ConjunctionAndConcatenation(sql) ==
    \E order \in Orders(MentionedTables(sql)) :
        LET syntax == validate_sql_syntax(sql)
            safety == validate_sql_safety(sql)
            schema == validate_schema_consistency(sql, state.schema_info, order)
        IN  /\ state.validation_passed = (syntax.valid /\ safety.valid /\ schema.valid)
            /\ state.validation_errors = syntax.errors \o safety.errors \o schema.errors

\* C7 as stated: for every candidate and schema, passed is the conjunction of
\* the three stage outcomes and the error list is the three stages' errors in
\* stage order.
C7_AsStated == ValidatorRan => ConjunctionAndConcatenation(state.sql_query)

\* C7: for every candidate that is present and not empty, and every schema,
\* passed = syntax_ok /\ safety_ok /\ schema_ok and the error list is the
\* syntax errors, then the safety errors, then the schema errors; for an
\* absent or empty candidate passed is false and the error list is the single
\* error "No SQL query provided for validation".
C7_Verdict ==
    ValidatorRan =>
        IF state.sql_query = NoneVal
        THEN /\ state.validation_passed = FALSE
             /\ state.validation_errors = << <<"No SQL query provided for validation">> >>
        ELSE /\ ConjunctionAndConcatenation(state.sql_query)
             /\ state.validation_passed =
                   (state.metadata.syntax_valid /\ state.metadata.safety_valid
                                                /\ state.metadata.schema_valid)

\* a candidate that passes syntax and safety and fails only the schema stage
C7_Witness ==
    /\ ValidatorRan
    /\ state.sql_query # NoneVal
    /\ state.metadata.syntax_valid
    /\ state.metadata.safety_valid
    /\ ~state.metadata.schema_valid
    /\ state.validation_passed = FALSE
    /\ Len(state.validation_errors) = 1

\* the table exists in the schema, names compared case-insensitively
TablePresent(table, schema_info) ==
    \E t \in DOMAIN schema_info.tables : Lower(t) = Lower(table)

\* every table.column reference to a mentioned table names a known column
ColumnsKnown(sql, schema_info) ==
    \A table \in MentionedTables(sql) : \A t \in DOMAIN schema_info.tables :
        Lower(t) = Lower(table) =>
            \A c \in Range(MentionedColumns(sql, table)) :
                Lower(c) \in {Lower(k) : k \in schema_info.tables[t]}

\* a single-statement SELECT without forbidden keywords was validated against
\* a schema
SelectValidated ==
    /\ ValidatorRan
    /\ state.sql_query # NoneVal
    /\ state.schema_info # NoneVal
    /\ NumStatements(state.sql_query) = 1
    /\ StartsWithSelect(state.sql_query)
    /\ ~ContainsForbiddenKeyword(state.sql_query)
    /\ MentionedTables(state.sql_query) # {}

\* the validation failed on a missing table only
FailsOnMissingTable ==
    /\ state.validation_passed = FALSE
    /\ \E t \in MentionedTables(state.sql_query) :
          /\ ~TablePresent(t, state.schema_info)
          /\ <<"Table not found in schema", t>> \in Range(state.validation_errors)
    /\ state.metadata.syntax_valid
    /\ state.metadata.safety_valid
    /\ ~state.metadata.schema_valid

\* C8 as stated: a single-statement SELECT without forbidden keywords fails
\* with "table not found" and syntax_ok = safety_ok = true when its FROM/JOIN
\* names a table absent from the schema, and passes when it names only tables
\* present in the schema.
C8_AsStated ==
    SelectValidated =>
        IF \E t \in MentionedTables(state.sql_query) : ~TablePresent(t, state.schema_info)
        THEN FailsOnMissingTable
        ELSE state.validation_passed

\* C8: a single-statement SELECT of at most MAX_QUERY_LENGTH characters
\* without forbidden keywords, validated against an available schema, fails
\* with "table not found" and syntax_ok = safety_ok = true when its FROM/JOIN
\* names a table absent from the schema (compared case-insensitively); when
\* it names only tables present in the schema it passes exactly if every
\* table.column reference to those tables names a known column.
C8_SchemaStage ==
    (SelectValidated /\ TextLen(state.sql_query) <= MAX_QUERY_LENGTH) =>
        IF \E t \in MentionedTables(state.sql_query) : ~TablePresent(t, state.schema_info)
        THEN FailsOnMissingTable
        ELSE state.validation_passed = ColumnsKnown(state.sql_query, state.schema_info)

\* "SELECT FROM ghost" was validated against a schema without ghost
C8_Witness ==
    /\ SelectValidated
    /\ state.sql_query = <<"SELECT", "FROM", "ghost">>
    /\ FailsOnMissingTable

RECURSIVE SelectSeq2(_, _)
\* the entries of `completed` that belong to the session, in order
SelectSeq2(seq, sid) ==
    IF seq = << >> THEN << >>
    ELSE (IF Head(seq).session_id = sid THEN <<Head(seq)>> ELSE << >>)
         \o SelectSeq2(Tail(seq), sid)

\* the session's Turns, or none when the session does not exist yet
History(sid) ==
    IF sid \in DOMAIN memory.sessions
    THEN memory.sessions[sid].conversation_history ELSE << >>

\* C9: the turns of a session are exactly the turns that reached
\* FinalResponse on that session, one Turn each, in completion order, the
\* failed ones included.
C9_OneTurnPerCompletedTurn ==
    \A sid \in SessionIds :
        LET done == SelectSeq2(completed, sid)
            history == History(sid)
        IN  /\ Len(history) = Len(done)
            /\ \A i \in 1..Len(done) :
                  /\ history[i].user_query = done[i].user_query
                  /\ history[i].sql_query = done[i].sql_query
                  /\ history[i].success = done[i].success

\* a session holds a failed Turn followed by a successful one
C9_Witness ==
    \E sid \in SessionIds :
        /\ Len(History(sid)) = 2
        /\ History(sid)[1].success = FALSE
        /\ History(sid)[2].success = TRUE
        /\ Len(completed) = 2

\* the positions of the successful Turns
Successful(history) == {i \in 1..Len(history) : history[i].success}

Max(S) == CHOOSE x \in S : \A y \in S : y <= x

\* last_query and last_sql are those of the most recent successful Turn
TracksLastSuccess(session) ==
    LET history == session.conversation_history
    IN  IF Successful(history) = {}
        THEN session.last_query = NoneVal /\ session.last_sql = NoneVal
        ELSE /\ session.last_query = history[Max(Successful(history))].user_query
             /\ session.last_sql = history[Max(Successful(history))].sql_query

\* C10: in every session last_query and last_sql are the user_query and
\* sql_query of the most recent successful Turn, absent when there is none;
\* a step that appends a failed Turn leaves both unchanged.
C10_LastSuccessfulQuery ==
    /\ [](\A sid \in DOMAIN memory.sessions : TracksLastSuccess(memory.sessions[sid]))
    /\ [][\A sid \in DOMAIN memory.sessions :
            LET before == memory.sessions[sid]
                after == memory'.sessions[sid]
            IN  (/\ Len(after.conversation_history) = Len(before.conversation_history) + 1
                 /\ ~Last(after.conversation_history).success)
                    => /\ after.last_query = before.last_query
                       /\ after.last_sql = before.last_sql]_vars

\* a failed Turn was appended after a successful one and the session still
\* names the successful query
C10_Witness ==
    \E sid \in DOMAIN memory.sessions :
        LET session == memory.sessions[sid]
        IN  /\ Len(session.conversation_history) = 2
            /\ session.conversation_history[1].success = TRUE
            /\ session.conversation_history[2].success = FALSE
            /\ session.last_query = session.conversation_history[1].user_query
            /\ session.last_query # session.conversation_history[2].user_query
            /\ session.last_sql # NoneVal

\* the last call of the MemoryManager was this method
Called(fn) ==
    /\ returned # NoneVal
    /\ "fn" \in DOMAIN returned
    /\ returned.fn = fn

IsPrefix(a, b) == Len(a) <= Len(b) /\ SubSeq(b, 1, Len(a)) = a

\* C11 as stated: appending a Turn for a session_id that is not in the store
\* creates the Session under that session_id and appends the Turn to it, and
\* no Session with another id is created or changed.
C11_AsStated ==
    [][\A sid \in SessionIds :
        (/\ returned' # NoneVal
         /\ "fn" \in DOMAIN returned'
         /\ returned'.fn = "update_session"
         /\ returned'.session_id = sid
         /\ sid \notin DOMAIN memory.sessions)
            => /\ sid \in DOMAIN memory'.sessions
               /\ get_session(memory', sid) # NoneVal
               /\ get_session(memory', sid).conversation_history # << >>
               /\ Last(get_session(memory', sid).conversation_history).user_query = ApiQuery
               /\ \A k \in DOMAIN memory'.sessions \ {sid} :
                     /\ k \in DOMAIN memory.sessions
                     /\ memory'.sessions[k] = memory.sessions[k]]_vars

\* C13 as stated: across create (with or without an id), get and append,
\* no session is dropped and the turns of every session only grow at the end.
C13_AsStated ==
    [][\A sid \in DOMAIN memory.sessions :
        /\ sid \in DOMAIN memory'.sessions
        /\ IsPrefix(memory.sessions[sid].conversation_history,
                    memory'.sessions[sid].conversation_history)]_vars

\* a token without the punctuation that follows it
Unpunctuated(t) == IF t = "it?" THEN "it" ELSE t

\* the query uses a referential word, possibly followed by punctuation
UsesReferentialWord(query) ==
    \E i \in 1..Len(query) : Unpunctuated(QLower(query[i])) \in reference_words

\* the session the call read has a non-empty last_query
HasLastQuery(session_id) ==
    /\ get_session(memory, session_id) # NoneVal
    /\ get_session(memory, session_id).last_query # NoneVal

\* C14 as stated: for a query that uses a referential word, "what about it?"
\* included, the annotation is appended if and only if the session's
\* last_query is non-empty; otherwise the query comes back unchanged.
C14_AsStated ==
    (Called("resolve_pronoun_references") /\ UsesReferentialWord(returned.query)) =>
        IF HasLastQuery(returned.session_id)
        THEN /\ returned.result # returned.query
             /\ IsPrefix(returned.query, returned.result)
        ELSE returned.result = returned.query

\* the annotation that names last_query
Annotation(last_query) ==
    <<" ", "(referring to previous query: '">> \o last_query \o <<"')">>

\* C15: resolve_references returns the query followed by the annotation that
\* names last_query exactly when the session has a non-empty last_query and a
\* whitespace-delimited token of the lower-cased query is one of it, that,
\* this, them, those, these, same; otherwise it returns the query unchanged;
\* and the call changes nothing in the Session Store.
C15_ResolveReferences ==
    /\ [](Called("resolve_pronoun_references") =>
            LET query == returned.query
                referential ==
                    \E i \in 1..Len(query) :
                        /\ query[i] # " "
                        /\ QLower(query[i]) \in {"it", "that", "this", "them",
                                                 "those", "these", "same"}
            IN  returned.result =
                   IF HasLastQuery(returned.session_id) /\ referential
                   THEN query \o Annotation(get_session(memory,
                                               returned.session_id).last_query)
                   ELSE query)
    /\ [][(/\ returned' # NoneVal
           /\ "fn" \in DOMAIN returned'
           /\ returned'.fn = "resolve_pronoun_references") => memory' = memory]_vars

\* "show It" was resolved against a session with a last_query
C15_Witness ==
    /\ Called("resolve_pronoun_references")
    /\ returned.query = <<"show", " ", "It">>
    /\ HasLastQuery(returned.session_id)
    /\ returned.result = returned.query \o Annotation(ApiQuery)

Min(a, b) == IF a <= b THEN a ELSE b

\* C20 as stated: recent_context(session_id, n) returns exactly the last
\* min(n, number of turns) Turns in history order, for every n >= 0.
C20_AsStated ==
    Called("get_recent_context") =>
        LET history == memory.sessions[returned.session_id].conversation_history
            k == Min(returned.n, Len(history))
        IN  returned.result = SubSeq(history, Len(history) - k + 1, Len(history))

\* C12: whatever the interleaving of turns on two distinct session_ids, the
\* history of each session holds exactly the Turns of the turns submitted
\* under that session_id, in their completion order, last_query and last_sql
\* of each session are those of its own last successful Turn, and no other
\* session exists.
C12_NoCrossSessionWrites ==
    /\ DOMAIN memory.sessions \subseteq SessionIds
    /\ \A sid \in SessionIds :
          LET done == SelectSeq2(completed, sid)
              history == History(sid)
          IN  /\ Len(history) = Len(done)
              /\ \A i \in 1..Len(done) :
                    /\ history[i].user_query = done[i].user_query
                    /\ history[i].sql_query = done[i].sql_query
                    /\ history[i].success = done[i].success
              /\ \A i \in 1..Len(history) :
                    \E p \in Procs :
                        /\ SidOf(p) = sid
                        /\ IsPrefix(QueryOf(p), history[i].user_query)
              /\ sid \in DOMAIN memory.sessions
                    => TracksLastSuccess(memory.sessions[sid])

\* A's turn completed while B's turn was in flight, and A's session was
\* created after B's
C12_Witness ==
    /\ pc["A"] = END
    /\ pc["B"] = FINAL_RESPONSE
    /\ memory.current_session_id = "s1"
    /\ Len(History("s1")) = 1
    /\ History("s2") = << >>

\* the file holds the entry a refresh wrote at instant t
RefreshedAt(t) ==
    /\ cache # NoFile
    /\ "timestamp" \in DOMAIN cache
    /\ "schema" \in DOMAIN cache
    /\ cache.timestamp = <<t>>

\* C16: with the entry of a refresh at instant t in the file, every get at an
\* instant strictly less than t + CACHE_TTL returns that entry's schema and
\* every get at an instant greater than or equal to t + CACHE_TTL returns
\* absent.
C16_CacheTtl ==
    \A t \in Times :
        (Called("load_schema_cache") /\ RefreshedAt(t)) =>
            /\ returned.now < t + CACHE_TTL => returned.result = cache.schema
            /\ returned.now >= t + CACHE_TTL => returned.result = NoneVal

\* a get exactly CACHE_TTL after the refresh found the entry expired
C16_Witness ==
    /\ Called("load_schema_cache")
    /\ RefreshedAt(0)
    /\ returned.now = CACHE_TTL
    /\ returned.result = NoneVal

\* the file is missing, malformed (not JSON, without a timestamp, with a
\* timestamp that does not parse) or expired at instant now
MissingMalformedOrExpired(file, now) ==
    \/ file = NoFile
    \/ "text" \in DOMAIN file
    \/ "timestamp" \notin DOMAIN file
    \/ Len(file.timestamp) # 1
    \/ now - file.timestamp[1] >= CACHE_TTL

\* C17: a missing file, a malformed file and an expired timestamp give the
\* same outcome: the cache read misses, the database is inspected again, and
\* the request state carries what the inspection returned (the schema and no
\* error when the database answers; the inspection's own schema_error when it
\* does not), never the schema of the file.
C17_CacheMiss ==
    (Called("schema_inspector_node")
        /\ MissingMalformedOrExpired(returned.file, returned.now)) =>
        /\ load_schema_cache(returned.file, returned.now) = NoneVal
        /\ IF returned.db_ok
           THEN /\ state.schema_info = DbSchema
                /\ state.schema_cached = TRUE
                /\ state.error_info = NoneVal
           ELSE /\ state.schema_info = NoneVal
                /\ state.error_info.type = "schema_error"

\* the node ran on a file without a timestamp that holds a stale schema, and
\* the state carries the schema of the database
C17_Witness ==
    /\ Called("schema_inspector_node")
    /\ returned.file = [schema |-> StaleSchema]
    /\ returned.db_ok
    /\ state.schema_info = DbSchema

\* the query of the turn, trimmed and lower-cased, is an exit command
IsExitCommand(query) == LowerQuery(Strip(query)) \in EXIT_COMMANDS

C21_AsStated ==
    (TurnOver /\ pc # "idle") =>
        /\ pc = END
        /\ Last(state.node_history) \in {FINAL_RESPONSE, EXIT}

\* the names of the stages
Stages ==
    {USER_INPUT, CONTEXT_MANAGER, SCHEMA_INSPECTOR, BUSINESS_CONTEXT, PLANNER,
     VALIDATOR, SQL_EXECUTOR, OUTPUT_FORMATTER, ERROR_HANDLER, FINAL_RESPONSE, EXIT}

\* C22: on the state SqlExecutor leaves, route_after_execution returns the
\* name of a stage: OutputFormatter when execution_success is true and
\* ErrorHandler when it is false.
C22_AsStated ==
    [][pc = SQL_EXECUTOR =>
          /\ route_after_execution(state') \in Stages
          /\ route_after_execution(state') =
                IF state'.execution_success THEN OUTPUT_FORMATTER ELSE ERROR_HANDLER]_vars

\* C23: a Planner step that leaves no SQL (the generation failed) is followed
\* by ErrorHandler, and the Validator never runs on an absent candidate.
C23_AsStated ==
    /\ [][(pc = PLANNER /\ state'.sql_query = NoneVal) => pc' = ERROR_HANDLER]_vars
    /\ [](pc = VALIDATOR => state.sql_query # NoneVal)

\* the SchemaInspector ran in this turn and found no schema
SchemaInspectionFailed ==
    /\ SCHEMA_INSPECTOR \in Range(state.node_history)
    /\ state.schema_info = NoneVal

\* C24: a SchemaInspector step that fails is followed by FinalResponse with
\* error_info of kind schema_error, and a turn whose schema inspection failed
\* visits none of BusinessContext, Planner, Validator and SqlExecutor.
C24_AsStated ==
    /\ [][(pc = SCHEMA_INSPECTOR /\ state'.schema_info = NoneVal) =>
             /\ pc' = FINAL_RESPONSE
             /\ state'.error_info # NoneVal
             /\ state'.error_info.type = "schema_error"]_vars
    /\ [](SchemaInspectionFailed =>
             Range(state.node_history)
                 \cap {BUSINESS_CONTEXT, PLANNER, VALIDATOR, SQL_EXECUTOR} = {})

\* the SqlExecutor ran in this turn and reported failure
ExecutionFailed ==
    /\ SQL_EXECUTOR \in Range(state.node_history)
    /\ ~state.execution_success

\* C25: a turn whose SqlExecutor reported failure ends at FinalResponse, and
\* the Planner is not entered after the failure.
C25_AsStated ==
    /\ [](ExecutionFailed => pc # PLANNER)
    /\ []((TurnOver /\ ExecutionFailed) =>
             /\ pc = END
             /\ Last(state.node_history) = FINAL_RESPONSE)

ErrorKinds == {"planning_error", "execution_error", "validation_error", "schema_error"}

\* C26: whenever error_info is present in the request state, its kind is one
\* of the four of the taxonomy and it carries a retryable flag that is true
\* exactly for validation_error and planning_error.
C26_AsStated ==
    state.error_info # NoneVal =>
        /\ state.error_info.type \in ErrorKinds
        /\ "retryable" \in DOMAIN state.error_info
        /\ state.error_info.retryable =
               (state.error_info.type \in {"validation_error", "planning_error"})

\* the Turns of the session of the turn in progress
OwnHistory == memory.sessions[state.session_id].conversation_history

\* a stage of this turn failed and the turn did not recover from it
StageFailed ==
    \/ SchemaInspectionFailed
    \/ state.error_info # NoneVal
    \/ ~state.validation_passed

\* C27: a turn that ended at FinalResponse after a stage failure has
\* error_info populated, and the Turn appended for it has success = false
\* and an error_message that is not empty.
C27_AsStated ==
    (pc = END /\ Last(state.node_history) = FINAL_RESPONSE /\ StageFailed) =>
        /\ state.error_info # NoneVal
        /\ Last(OwnHistory).success = FALSE
        /\ Last(OwnHistory).error_message # NoneVal

\* C28: a step changes the turns, last_query and last_sql of an existing
\* session only when it is the FinalResponse step of a turn of that session,
\* which appends exactly one Turn; a session a step creates starts without
\* turns; FinalResponse runs at most once in a turn.  So a turn abandoned
\* before FinalResponse, or ended through Exit, leaves them as they were.
C28_OnlyFinalResponseAppends ==
    /\ [][/\ \A sid \in DOMAIN memory.sessions :
               /\ sid \in DOMAIN memory'.sessions
               /\ IF pc = FINAL_RESPONSE /\ sid = state.session_id
                  THEN /\ Len(memory'.sessions[sid].conversation_history)
                            = Len(memory.sessions[sid].conversation_history) + 1
                       /\ IsPrefix(memory.sessions[sid].conversation_history,
                                   memory'.sessions[sid].conversation_history)
                  ELSE /\ memory'.sessions[sid].conversation_history
                            = memory.sessions[sid].conversation_history
                       /\ memory'.sessions[sid].last_query = memory.sessions[sid].last_query
                       /\ memory'.sessions[sid].last_sql = memory.sessions[sid].last_sql
          /\ \A sid \in DOMAIN memory'.sessions \ DOMAIN memory.sessions :
               /\ memory'.sessions[sid].conversation_history = << >>
               /\ memory'.sessions[sid].last_query = NoneVal
               /\ memory'.sessions[sid].last_sql = NoneVal]_vars
    /\ [](Len(SelectSeq(state.node_history, LAMBDA n : n = FINAL_RESPONSE)) <= 1)

\* the second turn of a session was abandoned after the SqlExecutor, and the
\* session still holds the one Turn of its first turn
C28_Witness ==
    /\ pc = "aborted"
    /\ Last(state.node_history) = SQL_EXECUTOR
    /\ Len(completed) = 1
    /\ completed[1].session_id = state.session_id
    /\ Len(OwnHistory) = 1

\* a stage of the turn in progress has reported a failure
FailureKnown ==
    /\ ~TurnOver
    /\ \/ state.error_info # NoneVal
       \/ SchemaInspectionFailed

\* the step appends one Turn with success = false to the session of the turn
\* and changes nothing else in the store
AppendsAuditTurn ==
    /\ state.session_id \in DOMAIN memory.sessions
    /\ DOMAIN memory'.sessions = DOMAIN memory.sessions
    /\ memory'.current_session_id = memory.current_session_id
    /\ \A sid \in DOMAIN memory.sessions \ {state.session_id} :
          memory'.sessions[sid] = memory.sessions[sid]
    /\ LET before == memory.sessions[state.session_id]
           after == memory'.sessions[state.session_id]
       IN  /\ Len(after.conversation_history) = Len(before.conversation_history) + 1
           /\ IsPrefix(before.conversation_history, after.conversation_history)
           /\ Last(after.conversation_history).success = FALSE
           /\ after.last_query = before.last_query
           /\ after.last_sql = before.last_sql
           /\ after.last_results = before.last_results

\* the step creates the session of the turn, empty, and changes no other
CreatesOwnSession ==
    /\ state.session_id \notin DOMAIN memory.sessions
    /\ DOMAIN memory'.sessions = DOMAIN memory.sessions \cup {state.session_id}
    /\ memory'.sessions[state.session_id] = SessionMemory(state.session_id)
    /\ \A sid \in DOMAIN memory.sessions : memory'.sessions[sid] = memory.sessions[sid]

EntryOf(w) == [timestamp |-> <<StampOf(w)>>, schema |-> SchemaOf(w)]

\* C30: a read that returns an entry read a file whose timestamp and schema
\* were written by one and the same refresh, and once no refresh is in
\* progress the file holds the entry of the refresh that finished last.
C30_AsStated ==
    /\ (Called("load_schema_cache") /\ returned.result # NoneVal) =>
           \E w \in Writers : returned.file = EntryOf(w)
    /\ ((\A w \in Writers : pc[w] = "closed") /\ calls # << >>) =>
           ParseBlocks(cache) = EntryOf(calls[1])

\* C31: when the request state carries a schema at the start of the turn and
\* that schema was captured CACHE_TTL or more before the SchemaInspector runs,
\* the stage treats it as absent and inspects the database again: the state
\* it leaves carries what the inspection returned.
C31_AsStated ==
    (Called("schema_inspector_node on a carried schema")
        /\ returned.now - returned.captured_at >= CACHE_TTL) =>
        state.schema_info = (IF returned.db_ok THEN DbSchema ELSE NoneVal)

SchemaWarning == <<"Schema info not available for validation">>

\* C32: when the request state carries no schema, the validation result is
\* passed = syntax_ok /\ safety_ok; for a candidate that is present the
\* schema stage ran, reported schema_valid = true and contributed only its
\* warning.
C32_AbsentSchema ==
    (ValidatorRan /\ state.schema_info = NoneVal) =>
        /\ state.validation_passed =
               (validate_sql_syntax(state.sql_query).valid
                    /\ validate_sql_safety(state.sql_query).valid)
        /\ state.sql_query # NoneVal =>
               /\ state.metadata.schema_valid = TRUE
               /\ calls[3].fn = "validate_schema_consistency"
               /\ calls[3].valid = TRUE
               /\ calls[3].errors = <<SchemaWarning>>
               /\ Last(state.validation_errors) = SchemaWarning

\* a candidate that names a table was validated without a schema and passed,
\* the warning being the only entry of its error list
C32_Witness ==
    /\ ValidatorRan
    /\ state.schema_info = NoneVal
    /\ MentionedTables(state.sql_query) # {}
    /\ state.validation_passed = TRUE
    /\ state.validation_errors = <<SchemaWarning>>

\* the Planner is about to run again after the Validator rejected a candidate
RetryAfterValidationFailure ==
    /\ pc = PLANNER
    /\ state.retry_count > 0
    /\ state.validation_errors # << >>
    /\ state.error_info # NoneVal
    /\ state.error_info.type = "validation_error"

\* C33: on a retry after a validation failure the input given to the
\* generator carries the validation errors of the failed attempt: it is not
\* the input the generator would be given had there been no errors.
C33_AsStated ==
    RetryAfterValidationFailure =>
        generator_input(state)
            # generator_input(update_state(state, [validation_errors |-> << >>,
                                                   error_info |-> NoneVal]))

\* the routing functions on the state with its node_history erased
RoutingIgnoresHistory ==
    LET erased == [state EXCEPT !.node_history = << >>]
    IN  /\ should_exit(erased) = should_exit(state)
        /\ route_after_validation(erased) = route_after_validation(state)
        /\ route_after_execution(erased) = route_after_execution(state)
        /\ route_after_error(update_state(erased, [error_info |-> classify(erased.error_info)]))
             = route_after_error(update_state(state, [error_info |-> classify(state.error_info)]))

\* C34: every execution of a stage appends the stage's own name, once, to
\* node_history and changes nothing else of it; a turn starts with an empty
\* node_history; so node_history is at every point the sequence of the stages
\* executed so far in the turn.  No routing function's result depends on it.
C34_NodeHistory ==
    /\ [][(pc \in Stages) => state'.node_history = Append(state.node_history, pc)]_vars
    /\ [][(pc \notin Stages) => state'.node_history = << >>]_vars
    /\ []RoutingIgnoresHistory

\* a turn with one retry ended at FinalResponse: the Planner and the
\* Validator are in node_history twice
C34_Witness ==
    /\ pc = END
    /\ state.node_history =
          <<USER_INPUT, CONTEXT_MANAGER, SCHEMA_INSPECTOR, BUSINESS_CONTEXT, PLANNER,
            VALIDATOR, ERROR_HANDLER, PLANNER, VALIDATOR, SQL_EXECUTOR,
            OUTPUT_FORMATTER, FINAL_RESPONSE>>

\* C35: the result of update_state has every key of the patch with the
\* patch's value and every other key of the state with the state's value, and
\* no other key; a dictionary under a key of both is replaced, not merged;
\* the state passed in is as it was.
C35_UpdateState ==
    Called("update_state") =>
        /\ DOMAIN returned.result = DOMAIN returned.state \cup DOMAIN returned.updates
        /\ \A k \in DOMAIN returned.updates : returned.result[k] = returned.updates[k]
        /\ \A k \in DOMAIN returned.state \ DOMAIN returned.updates :
              returned.result[k] = returned.state[k]
        /\ state = returned.state

\* a patch with metadata and without sql_query was merged into a state that
\* has both: metadata is the patch's alone and sql_query is the state's
C35_Witness ==
    /\ Called("update_state")
    /\ returned.state.metadata = [syntax_valid |-> TRUE]
    /\ returned.state.sql_query = ApiSql
    /\ DOMAIN returned.updates = {"metadata", "business_context"}
    /\ returned.result.metadata = [result_count |-> 1]
    /\ returned.result.sql_query = ApiSql

\* no call of update_session is in progress
Quiescent == \A p \in Procs : pc[p] = "idle"

SharedSession == memory.sessions[SharedSid]

\* C36: once the concurrent turns on one session_id have completed, the
\* history holds the Turn of every one of them, and last_query and last_sql
\* are the query and the SQL of one and the same successful Turn of the
\* history (or both absent when no turn succeeded).
C36_AsStated ==
    Quiescent =>
        /\ Len(SharedSession.conversation_history) = turns_started
        /\ \/ /\ SharedSession.last_query = NoneVal
              /\ SharedSession.last_sql = NoneVal
           \/ \E i \in 1..Len(SharedSession.conversation_history) :
                 LET turn == SharedSession.conversation_history[i]
                 IN  /\ turn.success
                     /\ SharedSession.last_query = turn.user_query
                     /\ SharedSession.last_sql = turn.sql_query

\* one generation attempt of the turn failed validation, a later one passed,
\* was executed with success and formatted
RecoveredAfterValidationFailure ==
    /\ Count(state.node_history, VALIDATOR) >= 2
    /\ ERROR_HANDLER \in Range(state.node_history)
    /\ OUTPUT_FORMATTER \in Range(state.node_history)
    /\ state.validation_passed
    /\ state.execution_success

\* C37: in a turn where an attempt failed validation and a later attempt
\* passed, executed with success and was formatted, error_info is empty when
\* FinalResponse is entered, and once the turn has ended its Turn is the last
\* of the session with success = true and the session's last_query and
\* last_sql are the query and the SQL of this turn.
C37_RecoveredTurn ==
    /\ (pc = FINAL_RESPONSE /\ RecoveredAfterValidationFailure) =>
           /\ state.error_info = NoneVal
           /\ final_success(state)
    /\ (EndedAtFinalResponse /\ RecoveredAfterValidationFailure) =>
           /\ Last(OwnHistory).success = TRUE
           /\ Last(OwnHistory).user_query = state.user_query
           /\ Last(OwnHistory).sql_query = state.sql_query
           /\ memory.sessions[state.session_id].last_query = state.user_query
           /\ memory.sessions[state.session_id].last_sql = state.sql_query

\* a second turn of a session whose first attempt failed validation ended
\* with success after one retry, and last_query moved on to its query
C37_Witness ==
    /\ EndedAtFinalResponse
    /\ RecoveredAfterValidationFailure
    /\ Len(OwnHistory) = 2
    /\ OwnHistory[1].user_query # state.user_query
    /\ OwnHistory[2].success = TRUE
    /\ memory.sessions[state.session_id].last_query = state.user_query

====
